---- MODULE Spec2Model ----
(***************************************************************************)
(* FitnessBackendService (src/unnamed/part_002): connectivity tracking,    *)
(* the retry executor, the offline request queue and its replay, the       *)
(* config cache.  One action is one run-to-suspension segment of the       *)
(* single JavaScript thread.                                               *)
(***************************************************************************)
EXTENDS Integers, Sequences, FiniteSets, TLC

\* ---- bounds of the model -------------------------------------------------
MaxId == 3          \* queueRequest calls explored (fresh ids 1..MaxId)
MaxTimers == 1      \* pending setTimeout(processRequestQueue) callbacks
MaxTime == 1        \* cache lifetimes the clock runs through
MaxPolicy == 1      \* largest maxRetries a caller installs with updateRetryConfig
MaxKeypoints == 2   \* longest keypoints array of a payload under validation
MaxCycles == 2
MaxLag == 1
MaxRetryCount == 5   \* largest retryCount handed to calculateRetryDelay
RandomGrain == 10   \* Math.random() takes the values r / RandomGrain, r < RandomGrain
MaxRequests == 2    \* NetworkService requests under way at a time
MaxRetriesOption == 1   \* largest retries option of a NetworkService request

\* ---- program constants ---------------------------------------------------
DefaultMaxRetries == 3
FrameMaxRetries == 1
HealthMaxRetries == 1
CACHE_DURATION == 30 * 60 * 1000

VARIABLES baseUrl, isInitialized, requestQueue, isProcessingQueue,
          networkStatus, retryConfig, configCache,
          exec, drain, result, timers, nextId, now,
          call,   \* a helper of the service under evaluation on its own:
                  \* which one, its argument, and its value once it returned
          networkService   \* the NetworkService singleton: isOnline, its
                           \* requests under way, the response last returned

vars == <<baseUrl, isInitialized, requestQueue, isProcessingQueue,
          networkStatus, retryConfig, configCache,
          exec, drain, result, timers, nextId, now, call,
          networkService>>

\* ---- the tasks -----------------------------------------------------------
Drains == {"d1", "d2"}
Procs == {"app"} \cup Drains
QueuedKinds == {"video", "config", "summary"}
Kinds == QueuedKinds \cup {"frame"}
Ops == Kinds \cup {"health"}
ExTypes == {"squat", "push_up"}

\* ---- errors: a kind and the words of the message ------------------------
NoError == [kind |-> "none", msg |-> <<>>]

StatusWord(s) ==
    CASE s = 400 -> "400" [] s = 401 -> "401" [] s = 403 -> "403"
      [] s = 404 -> "404" [] s = 413 -> "413" [] s = 422 -> "422"
      [] s = 500 -> "500" [] s = 503 -> "503" [] OTHER -> "200"

StatusText(s) ==
    CASE s = 400 -> <<"bad", "request">>
      [] s = 401 -> <<"unauthorized">>
      [] s = 403 -> <<"forbidden">>
      [] s = 404 -> <<"not", "found">>
      [] s = 413 -> <<"payload", "too", "large">>
      [] s = 422 -> <<"unprocessable", "entity">>
      [] s = 500 -> <<"internal", "server", "error">>
      [] s = 503 -> <<"service", "unavailable">>
      [] OTHER -> <<"ok">>

NotInitializedError ==
    [kind |-> "notInitialized",
     msg |-> <<"backend", "service", "not", "initialized">>]
QueuedError ==
    [kind |-> "queued",
     msg |-> <<"no", "network", "connection", "request", "queued", "with", "id">>]
FrameOfflineError ==
    [kind |-> "noNetworkFrame",
     msg |-> <<"no", "network", "connection", "for", "real-time", "analysis">>]
NoNetworkError ==
    [kind |-> "noNetwork", msg |-> <<"no", "network", "connection">>]

\* includes(): pat occurs in msg as a run of consecutive words
Includes(msg, pat) ==
    \E i \in 1..(Len(msg) - Len(pat) + 1) :
        \A j \in 1..Len(pat) : msg[i + j - 1] = pat[j]

isNonRetryableErrorNever(error) == FALSE

isNonRetryableError(error) ==
    \/ Includes(error.msg, <<"401">>) \/ Includes(error.msg, <<"unauthorized">>)
    \/ Includes(error.msg, <<"400">>) \/ Includes(error.msg, <<"bad", "request">>)
    \/ Includes(error.msg, <<"404">>) \/ Includes(error.msg, <<"not", "found">>)
    \/ Includes(error.msg, <<"413">>)
    \/ Includes(error.msg, <<"payload", "too", "large">>)

\* ---- records ---------------------------------------------------------------
NoEntry == [data |-> "none", expiresAt |-> 0]

IdleExec ==
    [pc |-> "idle", op |-> "none", ex |-> "none", maxRetries |-> 0,
     attempt |-> 0, calls |-> 0, lastError |-> NoError]

IdleDrain == [pc |-> "idle", todo |-> <<>>, ok |-> TRUE]

\* result: what the call that ended in the last step gave its caller; sync
\* tells that it ended before its first suspension, seen is the error the
\* last attempt ran into
NoResult ==
    [proc |-> "none", op |-> "none", ex |-> "none", outcome |-> "none",
     err |-> NoError, calls |-> 0, attempt |-> 0, maxRetries |-> 0,
     sync |-> FALSE, seen |-> NoError]

\* the outcome of a call that never entered executeWithRetry
Direct(proc, op, ex, outcome, err) ==
    [proc |-> proc, op |-> op, ex |-> ex, outcome |-> outcome, err |-> err,
     calls |-> 0, attempt |-> 0, maxRetries |-> 0, sync |-> TRUE,
     seen |-> NoError]

\* the outcome of a call that ended inside executeWithRetry; err is the error
\* executeWithRetry threw, which checkBackendHealth catches to return false
Ended(proc, e, outcome, err) ==
    [proc |-> proc, op |-> e.op, ex |-> e.ex,
     outcome |-> IF e.op = "health" /\ outcome = "error" THEN "false" ELSE outcome,
     err |-> err,
     calls |-> e.calls, attempt |-> e.attempt, maxRetries |-> e.maxRetries,
     sync |-> FALSE, seen |-> err]

\* no helper is under evaluation
NoCall == [fn |-> "none", arg |-> "none", done |-> FALSE, val |-> "none"]

\* NetworkService: a request slot, the response of a call, and the singleton
\* as constructed; skip is baseURL.includes('localhost') && !config.DEBUG_MODE
Requests == 1..MaxRequests
IdleRequest == [pc |-> "idle", retries |-> 0, attempt |-> 0]
NoResponse == [request |-> 0, success |-> FALSE, error |-> "none"]
NetworkServiceConstructed(skip) ==
    [isOnline |-> TRUE, skip |-> skip,
     requests |-> [r \in Requests |-> IdleRequest],
     response |-> NoResponse]

Constructed ==
    /\ baseUrl = "null"
    /\ isInitialized = FALSE
    /\ requestQueue = <<>>
    /\ isProcessingQueue = FALSE
    /\ networkStatus = [isConnected |-> TRUE]
    /\ configCache = [x \in ExTypes |-> NoEntry]
    /\ exec = [p \in Procs |-> IdleExec]
    /\ drain = [d \in Drains |-> IdleDrain]
    /\ result = NoResult
    /\ timers = 0
    /\ nextId = 1
    /\ now = 0
    /\ call = NoCall
    /\ networkService = NetworkServiceConstructed(FALSE)

Init ==
    /\ Constructed
    /\ retryConfig = [maxRetries |-> DefaultMaxRetries]

\* the service right after the application's updateRetryConfig({maxRetries})
InitPolicy ==
    /\ Constructed
    /\ retryConfig = [maxRetries |-> MaxPolicy]

\* the service after initialize() found a backend, under that policy
InitReady ==
    /\ baseUrl = "url"
    /\ isInitialized = TRUE
    /\ requestQueue = <<>>
    /\ isProcessingQueue = FALSE
    /\ networkStatus = [isConnected |-> TRUE]
    /\ configCache = [x \in ExTypes |-> NoEntry]
    /\ exec = [p \in Procs |-> IdleExec]
    /\ drain = [d \in Drains |-> IdleDrain]
    /\ result = NoResult
    /\ timers = 0
    /\ nextId = 1
    /\ now = 0
    /\ call = NoCall
    /\ networkService = NetworkServiceConstructed(FALSE)
    /\ retryConfig = [maxRetries |-> MaxPolicy]

\* ---- configCache -----------------------------------------------------------
Expired(entry) == now > entry.expiresAt

\* getCachedConfig: the value served ("none" for null) and the cache it leaves
getCachedConfig(cache, exerciseType) ==
    IF cache[exerciseType] = NoEntry
    THEN [data |-> "none", cache |-> cache]
    ELSE IF Expired(cache[exerciseType])
    THEN [data |-> "none", cache |-> [cache EXCEPT ![exerciseType] = NoEntry]]
    ELSE [data |-> cache[exerciseType].data, cache |-> cache]

cacheConfig(cache, exerciseType, config) ==
    [cache EXCEPT ![exerciseType] =
        [data |-> config, expiresAt |-> now + CACHE_DURATION]]

\* ---- the offline queue -----------------------------------------------------
queueRequestDrop(queue, id, type, ex) == queue

queueRequestAsFrame(queue, id, type, ex) ==
    Append(queue, [id |-> id, type |-> "frame", ex |-> ex, retryCount |-> 0])

queueRequest(queue, id, type, ex) ==
    Append(queue, [id |-> id, type |-> type, ex |-> ex, retryCount |-> 0])

\* ---- executeWithRetry ------------------------------------------------------
OpMaxRetries(op) ==
    IF op = "frame" THEN FrameMaxRetries
    ELSE IF op = "health" THEN HealthMaxRetries
    ELSE retryConfig.maxRetries

Running(e) == [done |-> FALSE, e |-> e, outcome |-> "none", err |-> NoError]
Finished(e, outcome, err) ==
    [done |-> TRUE, e |-> e, outcome |-> outcome, err |-> err]

ExhaustedLate(e) == e.attempt > e.maxRetries

Exhausted(e) == e.attempt >= e.maxRetries

CatchFirst(e, err) ==
    IF isNonRetryableError(err) THEN Finished(e, "error", err)
    ELSE IF Exhausted(e)
    THEN Finished(e, "error", IF e.lastError = NoError THEN err ELSE e.lastError)
    ELSE Running([e EXCEPT !.pc = "backoff",
                           !.lastError = IF @ = NoError THEN err ELSE @])

\* the catch block of the retry loop
Catch(e, err) ==
    IF isNonRetryableError(err) THEN Finished(e, "error", err)
    ELSE IF Exhausted(e) THEN Finished(e, "error", err)
    ELSE Running([e EXCEPT !.pc = "backoff", !.lastError = err])

AttemptUnchecked(e, connected) ==
    Running([e EXCEPT !.pc = "inflight", !.calls = @ + 1])

\* one pass through the try block up to the suspension in requestFn;
\* connected is networkStatus.isConnected as the running code reads it
Attempt(e, connected) ==
    IF ~connected THEN Catch(e, NoNetworkError)
    ELSE Running([e EXCEPT !.pc = "inflight", !.calls = @ + 1])

executeWithRetry(op, ex, connected) ==
    Attempt([pc |-> "idle", op |-> op, ex |-> ex, maxRetries |-> OpMaxRetries(op),
             attempt |-> 0, calls |-> 0, lastError |-> NoError], connected)

\* ---- what the backend may answer ------------------------------------------
ErrorStatuses == {400, 401, 403, 404, 413, 422, 500, 503}
\* 2xx bodies: the payload the operation's validator accepts, the envelope
\* {success: false, error}, the envelope {success: true} without data, and an
\* object the validator rejects
Bodies == {"valid", "rejected", "nodata", "invalid"}
TransportFailures == {"neterr", "timeout"}

Responses ==
    [status : ErrorStatuses, body : {"none"}]
        \cup [status : {200}, body : Bodies]
        \cup [status : {0}, body : TransportFailures]

HttpError(prefix, s, withText) ==
    [kind |-> "http",
     msg |-> prefix \o <<StatusWord(s)>> \o (IF withText THEN StatusText(s) ELSE <<>>)]

\* parseApiResponse: the error it throws for a body, NoError when it returns
parseApiResponse(body, context) ==
    CASE body = "rejected" ->
            [kind |-> "apiError",
             msg |-> <<"api", "error", "in">> \o context \o <<"unknown", "api", "error">>]
      [] body = "nodata" ->
            [kind |-> "noData",
             msg |-> <<"no", "data", "in", "api", "response", "for">> \o context]
      [] body = "invalid" ->
            [kind |-> "invalidStructure",
             msg |-> <<"invalid", "response", "structure", "for">> \o context]
      [] OTHER -> NoError

Returns(val, put) == [ok |-> TRUE, val |-> val, err |-> NoError, cachePut |-> put]
Throws(err) == [ok |-> FALSE, val |-> "none", err |-> err, cachePut |-> FALSE]

TransportError(op, body) ==
    IF op = "video"
    THEN IF body = "timeout"
         THEN [kind |-> "timeout", msg |-> <<"upload", "timeout">>]
         ELSE [kind |-> "network", msg |-> <<"network", "error", "during", "upload">>]
    ELSE [kind |-> "network", msg |-> <<"network", "request", "failed">>]

\* the body of the closure each operation hands to executeWithRetry, from the
\* arrival of the response on
uploadVideoFnDegraded(resp) ==
    IF resp.status = 0 THEN Throws(TransportError("video", resp.body))
    ELSE IF resp.status # 200 THEN Returns("synthetic", FALSE)
    ELSE Returns("backend", FALSE)

uploadVideoFn(resp) ==
    IF resp.status = 0 THEN Throws(TransportError("video", resp.body))
    ELSE IF resp.status # 200
    THEN Throws(HttpError(<<"upload", "failed", "with", "status">>, resp.status, FALSE))
    ELSE LET e == parseApiResponse(resp.body, <<"video", "upload">>)
         IN IF e = NoError THEN Returns("backend", FALSE)
            ELSE Throws([kind |-> "invalidFormat",
                         msg |-> <<"invalid", "response", "format">> \o e.msg])

analyzeFrameFn(resp) ==
    IF resp.status = 0 THEN Throws(TransportError("frame", resp.body))
    ELSE IF resp.status \in {401, 403, 422, 500} THEN Returns("synthetic", FALSE)
    ELSE IF resp.status # 200
    THEN Throws(HttpError(<<"frame", "analysis", "failed">>, resp.status, TRUE))
    ELSE LET e == parseApiResponse(resp.body, <<"frame", "analysis">>)
         IN IF e = NoError THEN Returns("backend", FALSE) ELSE Throws(e)

\* transformExerciseConfig builds a new object from the fields of the one it
\* is given, with targetKeypoints, thresholds and feedback filled in from
\* local tables: an envelope, which has none of a config's fields and whose
\* keys are not copied, comes out as a config without exerciseType ("blank");
\* a feedback that is not an object is copied as it is
transformExerciseConfig(body) ==
    IF body \in {"rejected", "nodata"} THEN "blank" ELSE body

getExerciseConfigFn(resp) ==
    IF resp.status = 0 THEN Throws(TransportError("config", resp.body))
    ELSE IF resp.status \in {401, 403, 404, 500} THEN Returns("synthetic", FALSE)
    ELSE IF resp.status # 200
    THEN Throws(HttpError(<<"failed", "to", "get", "exercise", "config">>,
                          resp.status, TRUE))
    ELSE LET t == transformExerciseConfig(resp.body)
             e == parseApiResponse(t, <<"exercise", "config">>)
         IN IF e = NoError THEN Returns(IF t = "valid" THEN "backend" ELSE t, TRUE)
            ELSE Throws(e)

submitSessionSummaryFn(resp) ==
    IF resp.status = 0 THEN Throws(TransportError("summary", resp.body))
    ELSE IF resp.status # 200
    THEN Throws(HttpError(<<"session", "summary", "failed">>, resp.status, TRUE))
    ELSE IF resp.body = "nodata"
    THEN Throws([kind |-> "invalidFormat",
                 msg |-> <<"invalid", "session", "summary", "response", "format">>])
    ELSE Returns("backend", FALSE)

checkBackendHealthFn(resp) ==
    IF resp.status = 0 THEN Throws(TransportError("health", resp.body))
    ELSE IF resp.status # 200
    THEN Throws(HttpError(<<"health", "check", "failed">>, resp.status, FALSE))
    ELSE Returns("true", FALSE)

requestFn(op, resp) ==
    CASE op = "video" -> uploadVideoFn(resp)
      [] op = "frame" -> analyzeFrameFn(resp)
      [] op = "config" -> getExerciseConfigFn(resp)
      [] op = "summary" -> submitSessionSummaryFn(resp)
      [] OTHER -> checkBackendHealthFn(resp)

\* only the upload sets a timeout on its transport
CanAnswer(op, resp) == resp.body = "timeout" => op = "video"

\* ---- the public operations up to their first suspension -----------------
\* run: what executeWithRetry did (meaningful when entered);
\* res: the outcome when the call ended without suspending
Step(entered, run, res, queue, id, cache) ==
    [entered |-> entered, run |-> run, res |-> res,
     queue |-> queue, id |-> id, cache |-> cache, blocked |-> FALSE]

Blocked(queue, id, cache) ==
    [entered |-> FALSE, run |-> Running(IdleExec),
     res |-> [outcome |-> "none", err |-> NoError],
     queue |-> queue, id |-> id, cache |-> cache, blocked |-> TRUE]

Immediate(outcome, err, queue, id, cache) ==
    Step(FALSE, Running(IdleExec), [outcome |-> outcome, err |-> err], queue, id, cache)

Enters(op, ex, connected, queue, id, cache) ==
    LET r == executeWithRetry(op, ex, connected)
    IN Step(TRUE, r, [outcome |-> r.outcome, err |-> r.err], queue, id, cache)

\* the offline branch shared by uploadVideo, getExerciseConfig and
\* submitSessionSummary
Defer(type, ex, queue, id, cache) ==
    IF id > MaxId THEN Blocked(queue, id, cache)
    ELSE Immediate("error", QueuedError, queueRequest(queue, id, type, ex), id + 1, cache)

uploadVideo(ex, connected, queue, id, cache) ==
    IF baseUrl = "null" THEN Immediate("error", NotInitializedError, queue, id, cache)
    ELSE IF ~connected THEN Defer("video", ex, queue, id, cache)
    ELSE Enters("video", ex, connected, queue, id, cache)

analyzeFrameQueued(ex, connected, queue, id, cache) ==
    IF baseUrl = "null" THEN Immediate("error", NotInitializedError, queue, id, cache)
    ELSE IF ~connected THEN Defer("frame", ex, queue, id, cache)
    ELSE Enters("frame", ex, connected, queue, id, cache)

analyzeFrame(ex, connected, queue, id, cache) ==
    IF baseUrl = "null" THEN Immediate("error", NotInitializedError, queue, id, cache)
    ELSE IF ~connected
    THEN Immediate("error", FrameOfflineError, queue, id, cache)
    ELSE Enters("frame", ex, connected, queue, id, cache)

getExerciseConfig(ex, connected, queue, id, cache) ==
    IF baseUrl = "null" THEN Immediate("error", NotInitializedError, queue, id, cache)
    ELSE LET c == getCachedConfig(cache, ex)
         IN IF c.data # "none" THEN Immediate(c.data, NoError, queue, id, c.cache)
            ELSE IF ~connected
            THEN Defer("config", ex, queue, id, c.cache)
            ELSE Enters("config", ex, connected, queue, id, c.cache)

submitSessionSummaryDeferFirst(ex, connected, queue, id, cache) ==
    IF ~connected THEN Defer("summary", ex, queue, id, cache)
    ELSE IF baseUrl = "null"
    THEN Immediate("error", NotInitializedError, queue, id, cache)
    ELSE Enters("summary", ex, connected, queue, id, cache)

submitSessionSummary(ex, connected, queue, id, cache) ==
    IF baseUrl = "null" THEN Immediate("error", NotInitializedError, queue, id, cache)
    ELSE IF ~connected THEN Defer("summary", ex, queue, id, cache)
    ELSE Enters("summary", ex, connected, queue, id, cache)

\* processQueuedRequest: the operation a queued entry's type selects
processQueuedRequest(request, connected, queue, id, cache) ==
    CASE request.type = "video" -> uploadVideo(request.ex, connected, queue, id, cache)
      [] request.type = "frame" -> analyzeFrame(request.ex, connected, queue, id, cache)
      [] request.type = "config" ->
            getExerciseConfig(request.ex, connected, queue, id, cache)
      [] OTHER -> submitSessionSummary(request.ex, connected, queue, id, cache)

\* ---- actions -------------------------------------------------------------
\* a continuation already queued as a microtask runs before any timer,
\* connectivity event or network response is delivered
MicrotaskPending == \E d \in Drains : drain[d].pc = "resume"

\* a call made by the application
AppCall(op, ex, st) ==
    /\ ~st.blocked
    /\ st.entered => exec["app"].pc = "idle"
    /\ requestQueue' = st.queue
    /\ nextId' = st.id
    /\ configCache' = st.cache
    /\ IF st.entered /\ ~st.run.done
       THEN /\ exec' = [exec EXCEPT !["app"] = st.run.e]
            /\ result' = NoResult
       ELSE /\ UNCHANGED exec
            /\ result' = IF st.entered
                         THEN Ended("app", st.run.e, st.res.outcome, st.res.err)
                         ELSE Direct("app", op, ex, st.res.outcome, st.res.err)
    /\ UNCHANGED <<baseUrl, isInitialized, isProcessingQueue, networkStatus,
                   retryConfig, drain, timers, now>>
    /\ UNCHANGED <<call, networkService>>

UploadVideo(ex) ==
    AppCall("video", ex, uploadVideo(ex, networkStatus.isConnected, requestQueue,
                                     nextId, configCache))

AnalyzeFrame(ex) ==
    AppCall("frame", ex, analyzeFrame(ex, networkStatus.isConnected, requestQueue,
                                      nextId, configCache))

GetExerciseConfig(ex) ==
    AppCall("config", ex, getExerciseConfig(ex, networkStatus.isConnected,
                                            requestQueue, nextId, configCache))

SubmitSessionSummary(ex) ==
    AppCall("summary", ex, submitSessionSummary(ex, networkStatus.isConnected,
                                                requestQueue, nextId, configCache))

\* executeWithRetry of task p moves on to r after an attempt that ran into
\* the error seen (NoError when it returned)
Observe(p, r, seen) ==
    IF r.done
    THEN /\ exec' = [exec EXCEPT ![p] = IdleExec]
         /\ result' = [Ended(p, r.e, r.outcome, r.err) EXCEPT !.seen = seen]
         /\ drain' = IF p \in Drains
                     THEN [drain EXCEPT ![p].pc = "resume",
                                        ![p].ok = (r.outcome # "error")]
                     ELSE drain
    ELSE /\ exec' = [exec EXCEPT ![p] = r.e]
         /\ result' = NoResult
         /\ UNCHANGED drain

Settle(p, r) == Observe(p, r, r.err)

\* the response of the request task p is waiting for arrives
NetRespond(p, resp) ==
    /\ ~MicrotaskPending
    /\ exec[p].pc = "inflight"
    /\ CanAnswer(exec[p].op, resp)
    /\ LET f == requestFn(exec[p].op, resp)
       IN /\ configCache' = IF f.cachePut
                            THEN cacheConfig(configCache, exec[p].ex, f.val)
                            ELSE configCache
          /\ Observe(p, IF f.ok THEN Finished(exec[p], f.val, NoError)
                        ELSE Catch(exec[p], f.err), f.err)
    /\ UNCHANGED <<baseUrl, isInitialized, requestQueue, isProcessingQueue,
                   networkStatus, retryConfig, timers, nextId, now>>
    /\ UNCHANGED <<call, networkService>>

\* the backoff timer of task p fires: the loop starts the next attempt
BackoffDone(p) ==
    /\ ~MicrotaskPending
    /\ exec[p].pc = "backoff"
    /\ Observe(p, Attempt([exec[p] EXCEPT !.attempt = @ + 1],
                           networkStatus.isConnected),
               IF networkStatus.isConnected THEN NoError ELSE NoNetworkError)
    /\ UNCHANGED <<baseUrl, isInitialized, requestQueue, isProcessingQueue,
                   networkStatus, retryConfig, configCache, timers, nextId, now>>
    /\ UNCHANGED <<call, networkService>>

\* the drain pass d calls processQueuedRequest on the head of todo
Launch(d, todo, connected, queue) ==
    LET st == processQueuedRequest(Head(todo), connected, queue, nextId, configCache)
    IN /\ ~st.blocked
       /\ requestQueue' = st.queue
       /\ nextId' = st.id
       /\ configCache' = st.cache
       /\ IF st.entered /\ ~st.run.done
          THEN /\ exec' = [exec EXCEPT ![d] = st.run.e]
               /\ drain' = [drain EXCEPT ![d] = [pc |-> "await", todo |-> todo, ok |-> TRUE]]
               /\ result' = NoResult
          ELSE /\ UNCHANGED exec
               /\ drain' = [drain EXCEPT ![d] =
                              [pc |-> "resume", todo |-> todo,
                               ok |-> (st.res.outcome # "error")]]
               /\ result' = Direct(d, Head(todo).type, Head(todo).ex,
                                   st.res.outcome, st.res.err)

FreeDrain == CHOOSE d \in Drains : drain[d].pc = "idle" /\
                 \A o \in Drains : drain[o].pc = "idle" => ~(o = "d1" /\ d = "d2")

processRequestQueueIdle(connected) ==
    /\ result' = NoResult
    /\ UNCHANGED <<requestQueue, isProcessingQueue, configCache, exec, drain, nextId>>

\* processRequestQueue up to its first suspension
processRequestQueue(connected) ==
    IF isProcessingQueue \/ requestQueue = <<>>
    THEN /\ result' = NoResult
         /\ UNCHANGED <<requestQueue, isProcessingQueue, configCache, exec, drain,
                        nextId>>
    ELSE /\ \E d \in Drains : drain[d].pc = "idle"
         /\ isProcessingQueue' = TRUE
         /\ Launch(FreeDrain, requestQueue, connected, <<>>)

RequeueForever(request, queue) == Append(queue, request)

RequeueUnbounded(request, queue) ==
    Append(queue, [request EXCEPT !.retryCount = @ + 1])

RequeueCountDown(request, queue) ==
    IF request.retryCount < retryConfig.maxRetries
    THEN Append(queue, [request EXCEPT !.retryCount = @ - 1])
    ELSE queue

\* the catch block of the pass: re-queue below the retry limit
Requeue(request, queue) ==
    IF request.retryCount < retryConfig.maxRetries
    THEN Append(queue, [request EXCEPT !.retryCount = @ + 1])
    ELSE queue

DrainStepNoRedrain(d) ==
    /\ drain[d].pc = "resume"
    /\ LET request == Head(drain[d].todo)
           rest == Tail(drain[d].todo)
           queue == IF drain[d].ok THEN requestQueue
                    ELSE Requeue(request, requestQueue)
       IN IF rest # <<>>
          THEN /\ Launch(d, rest, networkStatus.isConnected, queue)
               /\ UNCHANGED <<isProcessingQueue, timers>>
          ELSE /\ isProcessingQueue' = FALSE
               /\ requestQueue' = queue
               /\ drain' = [drain EXCEPT ![d] = IdleDrain]
               /\ UNCHANGED timers
               /\ result' = NoResult
               /\ UNCHANGED <<configCache, exec, nextId>>
    /\ UNCHANGED <<baseUrl, isInitialized, networkStatus, retryConfig, now>>
    /\ UNCHANGED <<call, networkService>>

DrainStep(d) ==
    /\ drain[d].pc = "resume"
    /\ LET request == Head(drain[d].todo)
           rest == Tail(drain[d].todo)
           queue == IF drain[d].ok THEN requestQueue
                    ELSE Requeue(request, requestQueue)
       IN IF rest # <<>>
          THEN /\ Launch(d, rest, networkStatus.isConnected, queue)
               /\ UNCHANGED <<isProcessingQueue, timers>>
          ELSE /\ isProcessingQueue' = FALSE
               /\ requestQueue' = queue
               /\ drain' = [drain EXCEPT ![d] = IdleDrain]
               /\ IF queue # <<>>
                  THEN timers < MaxTimers /\ timers' = timers + 1
                  ELSE UNCHANGED timers
               /\ result' = NoResult
               /\ UNCHANGED <<configCache, exec, nextId>>
    /\ UNCHANGED <<baseUrl, isInitialized, networkStatus, retryConfig, now>>
    /\ UNCHANGED <<call, networkService>>

\* the setTimeout(() => this.processRequestQueue(), 5000) callback
TimerFire ==
    /\ ~MicrotaskPending
    /\ timers > 0
    /\ timers' = timers - 1
    /\ processRequestQueue(networkStatus.isConnected)
    /\ UNCHANGED <<baseUrl, isInitialized, networkStatus, retryConfig, now>>
    /\ UNCHANGED <<call, networkService>>

\* the NetInfo listener; state.isConnected ?? false
Coalesce(isConnected) == isConnected = "true"

NetInfoEventAlways(isConnected) ==
    /\ ~MicrotaskPending
    /\ networkStatus' = [isConnected |-> Coalesce(isConnected)]
    /\ IF Coalesce(isConnected) /\ requestQueue # <<>>
       THEN processRequestQueue(Coalesce(isConnected))
       ELSE /\ result' = NoResult
            /\ UNCHANGED <<requestQueue, isProcessingQueue, configCache,
                           exec, drain, nextId>>
    /\ UNCHANGED <<baseUrl, isInitialized, retryConfig, timers, now>>
    /\ UNCHANGED <<call, networkService>>

NetInfoEvent(isConnected) ==
    /\ ~MicrotaskPending
    /\ LET wasConnected == networkStatus.isConnected
       IN /\ networkStatus' = [isConnected |-> Coalesce(isConnected)]
          /\ IF ~wasConnected /\ Coalesce(isConnected) /\ requestQueue # <<>>
             THEN processRequestQueue(Coalesce(isConnected))
             ELSE /\ result' = NoResult
                  /\ UNCHANGED <<requestQueue, isProcessingQueue, configCache,
                                 exec, drain, nextId>>
    /\ UNCHANGED <<baseUrl, isInitialized, retryConfig, timers, now>>
    /\ UNCHANGED <<call, networkService>>

GetNetworkStatusDraining ==
    /\ processRequestQueue(networkStatus.isConnected)
    /\ UNCHANGED <<baseUrl, isInitialized, networkStatus, retryConfig, timers, now>>
    /\ UNCHANGED <<call, networkService>>

\* the two reads of the public interface
GetNetworkStatus ==
    /\ result' = Direct("app", "status", "none",
                        IF networkStatus.isConnected THEN "true" ELSE "false",
                        NoError)
    /\ UNCHANGED <<baseUrl, isInitialized, requestQueue, isProcessingQueue,
                   networkStatus, retryConfig, configCache, exec, drain, timers,
                   nextId, now>>
    /\ UNCHANGED <<call, networkService>>

GetQueuedRequestsCount ==
    /\ result' = Direct("app", "count", "none", ToString(Len(requestQueue)),
                        NoError)
    /\ UNCHANGED <<baseUrl, isInitialized, requestQueue, isProcessingQueue,
                   networkStatus, retryConfig, configCache, exec, drain, timers,
                   nextId, now>>
    /\ UNCHANGED <<call, networkService>>

ClearRequestQueue ==
    /\ requestQueue' = <<>>
    /\ result' = NoResult
    /\ UNCHANGED <<baseUrl, isInitialized, isProcessingQueue, networkStatus,
                   retryConfig, configCache, exec, drain, timers, nextId, now>>
    /\ UNCHANGED <<call, networkService>>

Reset ==
    /\ baseUrl' = "null"
    /\ isInitialized' = FALSE
    /\ requestQueue' = <<>>
    /\ isProcessingQueue' = FALSE
    /\ configCache' = [x \in ExTypes |-> NoEntry]
    /\ result' = NoResult
    /\ UNCHANGED <<networkStatus, retryConfig, exec, drain, timers, nextId, now>>
    /\ UNCHANGED <<call, networkService>>

UpdateRetryConfig(n) ==
    /\ retryConfig' = [retryConfig EXCEPT !.maxRetries = n]
    /\ result' = NoResult
    /\ UNCHANGED <<baseUrl, isInitialized, requestQueue, isProcessingQueue,
                   networkStatus, configCache, exec, drain, timers, nextId, now>>
    /\ UNCHANGED <<call, networkService>>

InitializeAgain ==
    /\ exec["app"].pc = "idle"
    /\ exec' = [exec EXCEPT !["app"] = [IdleExec EXCEPT !.pc = "discover",
                                                        !.op = "init"]]
    /\ result' = NoResult
    /\ UNCHANGED <<baseUrl, isInitialized, requestQueue, isProcessingQueue,
                   networkStatus, retryConfig, configCache, drain, timers,
                   nextId, now>>
    /\ UNCHANGED <<call, networkService>>

\* initialize up to the await on findBestBackendUrl
Initialize ==
    /\ exec["app"].pc = "idle"
    /\ IF isInitialized /\ baseUrl # "null"
       THEN /\ result' = Direct("app", "init", "none", "true", NoError)
            /\ UNCHANGED exec
       ELSE /\ exec' = [exec EXCEPT !["app"] = [IdleExec EXCEPT !.pc = "discover",
                                                               !.op = "init"]]
            /\ result' = NoResult
    /\ UNCHANGED <<baseUrl, isInitialized, requestQueue, isProcessingQueue,
                   networkStatus, retryConfig, configCache, drain, timers,
                   nextId, now>>
    /\ UNCHANGED <<call, networkService>>

\* checkBackendHealth up to its first suspension
CheckBackendHealth ==
    /\ exec["app"].pc = "idle"
    /\ IF baseUrl = "null"
       THEN /\ exec' = [exec EXCEPT !["app"] = [IdleExec EXCEPT !.pc = "discover",
                                                               !.op = "health"]]
            /\ result' = NoResult
       ELSE Settle("app", executeWithRetry("health", "none",
                                           networkStatus.isConnected))
    /\ UNCHANGED <<baseUrl, isInitialized, requestQueue, isProcessingQueue,
                   networkStatus, retryConfig, configCache, drain, timers,
                   nextId, now>>
    /\ UNCHANGED <<call, networkService>>

\* findBestBackendUrl answers: a url, no url, or it throws
DiscoverDone(found) ==
    /\ ~MicrotaskPending
    /\ exec["app"].pc = "discover"
    /\ IF found = "url"
       THEN /\ baseUrl' = "url"
            /\ isInitialized' = TRUE
            /\ IF exec["app"].op = "health"
               THEN Settle("app", executeWithRetry("health", "none",
                                                   networkStatus.isConnected))
               ELSE /\ exec' = [exec EXCEPT !["app"] = IdleExec]
                    /\ result' = Direct("app", "init", "none", "true", NoError)
                    /\ UNCHANGED drain
       ELSE /\ exec' = [exec EXCEPT !["app"] = IdleExec]
            /\ result' = Direct("app", exec["app"].op, "none", "false", NoError)
            /\ UNCHANGED <<baseUrl, isInitialized, drain>>
    /\ UNCHANGED <<requestQueue, isProcessingQueue, networkStatus, retryConfig,
                   configCache, timers, nextId, now>>
    /\ UNCHANGED <<call, networkService>>

\* the instants of Date.now() that matter to an entry cached at the start of
\* a lifetime: its expiry instant and the millisecond after it
ClockPoints == {k * CACHE_DURATION + j : k \in 1..MaxTime, j \in {0, 1}}

\* the clock advances
Tick ==
    /\ ~MicrotaskPending
    /\ \E t \in ClockPoints : t > now /\ now' = t
    /\ result' = NoResult
    /\ UNCHANGED <<baseUrl, isInitialized, requestQueue, isProcessingQueue,
                   networkStatus, retryConfig, configCache, exec, drain, timers,
                   nextId>>
    /\ UNCHANGED <<call, networkService>>

Next ==
    \/ Initialize
    \/ CheckBackendHealth
    \/ \E found \in {"url", "none", "throw"} : DiscoverDone(found)
    \/ \E ex \in ExTypes : UploadVideo(ex)
    \/ \E ex \in ExTypes : AnalyzeFrame(ex)
    \/ \E ex \in ExTypes : GetExerciseConfig(ex)
    \/ \E ex \in ExTypes : SubmitSessionSummary(ex)
    \/ \E p \in Procs, resp \in Responses : NetRespond(p, resp)
    \/ \E p \in Procs : BackoffDone(p)
    \/ \E d \in Drains : DrainStep(d)
    \/ TimerFire
    \/ \E c \in {"true", "false", "null"} : NetInfoEvent(c)
    \/ ClearRequestQueue
    \/ Reset
    \/ \E n \in 0..MaxPolicy : UpdateRetryConfig(n)
    \/ GetNetworkStatus
    \/ GetQueuedRequestsCount
    \/ Tick

Spec == Init /\ [][Next]_vars

\* ---- specifications ------------------------------------------------------
\* SpecQueue: the offline queue and its replay.  The application defers
\* calls, clears and reconfigures at any point (reset(): SpecReset); the calls it would
\* dispatch itself are left to SpecRetry, and a replayed request is answered
\* by one response of each class (success, non-retryable, fallback, retryable).
\* The runs start after updateRetryConfig({maxRetries: MaxPolicy}): the ladder
\* of the default policy is explored in SpecRetry.
ReplayExTypes == {"squat"}
ReplayResponses ==
    {r \in Responses : r.status \in {401, 500, 503} \/ r.body = "valid"}

NextQueue ==
    \/ Initialize
    \/ \E found \in {"url", "none", "throw"} : DiscoverDone(found)
    \/ \E ex \in ReplayExTypes : UploadVideo(ex) /\ exec'["app"] = IdleExec
    \/ \E ex \in ReplayExTypes : AnalyzeFrame(ex) /\ exec'["app"] = IdleExec
    \/ \E ex \in ReplayExTypes : GetExerciseConfig(ex) /\ exec'["app"] = IdleExec
    \/ \E ex \in ReplayExTypes : SubmitSessionSummary(ex) /\ exec'["app"] = IdleExec
    \/ \E d \in Drains, resp \in ReplayResponses : NetRespond(d, resp)
    \/ \E d \in Drains : BackoffDone(d)
    \/ \E d \in Drains : DrainStep(d)
    \/ TimerFire
    \/ \E c \in {"true", "false", "null"} : NetInfoEvent(c)
    \/ ClearRequestQueue
    \/ \E n \in 0..MaxPolicy : UpdateRetryConfig(n)

SpecQueue == InitPolicy /\ [][NextQueue]_vars

\* SpecReset: reset() at any point of the replay, a second pass included.
\* One kind of request and two answers (success, retryable failure) keep the
\* two passes' product explorable.
ResetResponses == {r \in Responses : r.status = 503 \/ r.body = "valid"}

NextReset ==
    \/ Initialize
    \/ \E found \in {"url", "none", "throw"} : DiscoverDone(found)
    \/ \E ex \in ReplayExTypes : UploadVideo(ex) /\ exec'["app"] = IdleExec
    \/ \E d \in Drains, resp \in ResetResponses : NetRespond(d, resp)
    \/ \E d \in Drains : BackoffDone(d)
    \/ \E d \in Drains : DrainStep(d)
    \/ TimerFire
    \/ \E c \in {"true", "false", "null"} : NetInfoEvent(c)
    \/ Reset

SpecReset == InitPolicy /\ [][NextReset]_vars

\* SpecRetry: the retry executor under the application's own calls, every
\* response and every connectivity change; calls that would be deferred are
\* left to SpecQueue, the passing of time to SpecCache.
NextRetry ==
    \/ Initialize
    \/ CheckBackendHealth
    \/ \E found \in {"url", "none", "throw"} : DiscoverDone(found)
    \/ \E ex \in ExTypes : UploadVideo(ex) /\ requestQueue' = requestQueue
    \/ \E ex \in ExTypes : AnalyzeFrame(ex)
    \/ \E ex \in ExTypes : GetExerciseConfig(ex) /\ requestQueue' = requestQueue
    \/ \E ex \in ExTypes : SubmitSessionSummary(ex) /\ requestQueue' = requestQueue
    \/ \E resp \in Responses : NetRespond("app", resp)
    \/ BackoffDone("app")
    \/ \E c \in {"true", "false", "null"} : NetInfoEvent(c)
    \/ Reset
    \/ \E n \in 0..MaxPolicy : UpdateRetryConfig(n)

SpecRetry == Init /\ [][NextRetry]_vars

\* SpecCache: getExerciseConfig and its cache while the clock runs through
\* the lifetime of an entry, under every response, connectivity change and
\* reset().
NextCache ==
    \/ Initialize
    \/ \E found \in {"url", "none", "throw"} : DiscoverDone(found)
    \/ \E ex \in ExTypes : GetExerciseConfig(ex) /\ requestQueue' = requestQueue
    \/ \E resp \in Responses : NetRespond("app", resp)
    \/ BackoffDone("app")
    \/ \E c \in {"true", "false", "null"} : NetInfoEvent(c)
    \/ Reset
    \/ Tick

SpecCache == InitReady /\ [][NextCache]_vars

\* SpecLive: the replay with its scheduling.  A response arrives for every
\* request in flight (the claims' assumption), every backoff and re-drain
\* timer fires, and a pass resumes after each await; the application and the
\* network monitor are free to act or not.  The client is initialized and
\* stays so (reset(): SpecReset).
NextLive ==
    \/ \E ex \in ReplayExTypes : UploadVideo(ex) /\ exec'["app"] = IdleExec
    \/ \E ex \in ReplayExTypes : SubmitSessionSummary(ex) /\ exec'["app"] = IdleExec
    \/ \E d \in Drains, resp \in ResetResponses : NetRespond(d, resp)
    \/ \E d \in Drains : BackoffDone(d)
    \/ \E d \in Drains : DrainStep(d)
    \/ TimerFire
    \/ \E c \in {"true", "false", "null"} : NetInfoEvent(c)
    \/ ClearRequestQueue

Scheduling ==
    /\ \A d \in Drains : WF_vars(\E resp \in ResetResponses : NetRespond(d, resp))
    /\ \A d \in Drains : WF_vars(BackoffDone(d))
    /\ \A d \in Drains : WF_vars(DrainStep(d))
    /\ WF_vars(TimerFire)

SpecLive == InitReady /\ [][NextLive]_vars /\ Scheduling

\* SpecPoll: the application polls the status and the queue length and
\* makes its calls while requests are deferred and replayed on an initialized
\* client.
NextPoll ==
    \/ GetNetworkStatus
    \/ GetQueuedRequestsCount
    \/ \E ex \in ReplayExTypes : UploadVideo(ex) /\ exec'["app"] = IdleExec
    \/ \E ex \in ReplayExTypes : AnalyzeFrame(ex) /\ exec'["app"] = IdleExec
    \/ \E ex \in ReplayExTypes : GetExerciseConfig(ex) /\ exec'["app"] = IdleExec
    \/ \E ex \in ReplayExTypes : SubmitSessionSummary(ex) /\ exec'["app"] = IdleExec
    \/ \E d \in Drains, resp \in ResetResponses : NetRespond(d, resp)
    \/ \E d \in Drains : BackoffDone(d)
    \/ \E d \in Drains : DrainStep(d)
    \/ TimerFire
    \/ \E c \in {"true", "false", "null"} : NetInfoEvent(c)

SpecPoll == InitReady /\ [][NextPoll]_vars

\* SpecTimeout: the application's calls on an initialized client whose
\* responses may never arrive.  What is scheduled is what the code itself
\* sets up: the timeout of a transport that has one, and the backoff timer.
NextTimeout ==
    \/ \E ex \in ExTypes : UploadVideo(ex) /\ requestQueue' = requestQueue
    \/ \E ex \in ExTypes : AnalyzeFrame(ex)
    \/ \E ex \in ExTypes : GetExerciseConfig(ex) /\ requestQueue' = requestQueue
    \/ \E ex \in ExTypes : SubmitSessionSummary(ex) /\ requestQueue' = requestQueue
    \/ \E resp \in Responses : NetRespond("app", resp)
    \/ BackoffDone("app")
    \/ \E c \in {"true", "false", "null"} : NetInfoEvent(c)
    \/ Tick

TimeoutFires == NetRespond("app", [status |-> 0, body |-> "timeout"])

SpecTimeout ==
    InitReady /\ [][NextTimeout]_vars
        /\ WF_vars(TimeoutFires) /\ WF_vars(BackoffDone("app"))

\* SpecUnset: the four operations called on a client whose base URL is
\* unset: before initialize, after a failed initialize and after reset
NextUnset ==
    \/ Initialize
    \/ CheckBackendHealth
    \/ \E found \in {"url", "none", "throw"} : DiscoverDone(found)
    \/ \E ex \in ExTypes : baseUrl = "null" /\ UploadVideo(ex)
    \/ \E ex \in ExTypes : baseUrl = "null" /\ AnalyzeFrame(ex)
    \/ \E ex \in ExTypes : baseUrl = "null" /\ GetExerciseConfig(ex)
    \/ \E ex \in ExTypes : baseUrl = "null" /\ SubmitSessionSummary(ex)
    \/ \E resp \in Responses : NetRespond("app", resp)
    \/ BackoffDone("app")
    \/ \E c \in {"true", "false", "null"} : NetInfoEvent(c)
    \/ Reset
    \/ \E n \in 0..MaxPolicy : UpdateRetryConfig(n)

SpecUnset == Init /\ [][NextUnset]_vars

\* ---- response validation ------------------------------------------------
\* A JSON value is modelled by what the validators look at: whether a field
\* is there, its typeof / Array.isArray class, and for the fields that are read
\* further, their content.
NumberTags == {"absent", "number", "string"}
ArrayTags == {"absent", "array", "string"}

GoodKeypoint ==
    [kind |-> "object", x |-> "number", y |-> "number", name |-> "string",
     z |-> "undefined", visibility |-> "undefined"]

\* a well-formed keypoint without and with the optional fields, keypoints
\* with one field mistyped or missing, and a null in place of the object
KeypointSamples ==
    {GoodKeypoint,
     [GoodKeypoint EXCEPT !.z = "number", !.visibility = "number"],
     [GoodKeypoint EXCEPT !.x = "string"],
     [GoodKeypoint EXCEPT !.y = "undefined"],
     [GoodKeypoint EXCEPT !.name = "undefined"],
     [GoodKeypoint EXCEPT !.z = "string"],
     [GoodKeypoint EXCEPT !.visibility = "string"],
     [GoodKeypoint EXCEPT !.kind = "number"],
     [GoodKeypoint EXCEPT !.kind = "null"]}

KeypointSeqs == UNION {[1..n -> KeypointSamples] : n \in 0..MaxKeypoints}

KeypointsField ==
    {[t |-> tag, v |-> <<>>] : tag \in {"absent", "string"}}
        \cup {[t |-> "array", v |-> kps] : kps \in KeypointSeqs}

StageWords == {"up", "down", "hold", "rest", "jump", "UP"}

StageField ==
    {[t |-> tag, v |-> ""] : tag \in {"absent", "number"}}
        \cup {[t |-> "string", v |-> w] : w \in StageWords}

PosePayloads ==
    [kind : {"object"}, keypoints : KeypointsField, confidence : NumberTags,
     formScore : NumberTags, currentRep : NumberTags, stage : StageField,
     warnings : ArrayTags]
        \cup [kind : {"null", "string"}, keypoints : {[t |-> "absent", v |-> <<>>]},
              confidence : {"absent"}, formScore : {"absent"},
              currentRep : {"absent"}, stage : {[t |-> "absent", v |-> ""]},
              warnings : {"absent"}]

\* validatePoseKeypoint: "true", "false", or "throw" when the property read
\* on null raises a TypeError (typeof null is 'object')
validatePoseKeypoint(keypoint) ==
    IF keypoint.kind = "null" THEN "throw"
    ELSE IF /\ keypoint.kind = "object"
            /\ keypoint.x = "number"
            /\ keypoint.y = "number"
            /\ keypoint.name = "string"
            /\ keypoint.z \in {"undefined", "number"}
            /\ keypoint.visibility \in {"undefined", "number"}
    THEN "true" ELSE "false"

\* keypoints.every(validatePoseKeypoint): the verdict on the first keypoint
\* that is not accepted, "true" if there is none
EveryKeypoint(kps) ==
    LET bad == {i \in 1..Len(kps) : validatePoseKeypoint(kps[i]) # "true"}
    IN IF bad = {} THEN "true"
       ELSE validatePoseKeypoint(kps[CHOOSE i \in bad : \A j \in bad : i <= j])

validStages == {"up", "down", "hold", "rest"}

validatePoseDataAnyStage(data) ==
    IF data.kind # "object" THEN "false"
    ELSE IF \/ data.keypoints.t = "absent" \/ data.confidence = "absent"
            \/ data.formScore = "absent" \/ data.currentRep = "absent"
            \/ data.stage.t = "absent" \/ data.warnings = "absent"
    THEN "false"
    ELSE IF \/ data.keypoints.t # "array" \/ data.confidence # "number"
            \/ data.formScore # "number" \/ data.currentRep # "number"
            \/ data.stage.t # "string" \/ data.warnings # "array"
    THEN "false"
    ELSE EveryKeypoint(data.keypoints.v)

validatePoseData(data) ==
    IF data.kind # "object" THEN "false"
    ELSE IF \/ data.keypoints.t = "absent" \/ data.confidence = "absent"
            \/ data.formScore = "absent" \/ data.currentRep = "absent"
            \/ data.stage.t = "absent" \/ data.warnings = "absent"
    THEN "false"
    ELSE IF \/ data.keypoints.t # "array" \/ data.confidence # "number"
            \/ data.formScore # "number" \/ data.currentRep # "number"
            \/ data.stage.t # "string" \/ data.warnings # "array"
    THEN "false"
    ELSE IF EveryKeypoint(data.keypoints.v) # "true"
    THEN EveryKeypoint(data.keypoints.v)
    ELSE IF data.stage.v \notin validStages THEN "false"
    ELSE "true"

\* AnalysisResult payloads: the well-formed one around each keypoints value,
\* with up to two of its other fields absent or retyped
AnalysisStrings == {"sessionId", "exerciseType"}
AnalysisNumbers == {"totalReps", "accuracy", "duration", "calories"}
AnalysisArrays == {"formFeedback", "recommendations"}
AnalysisScalars == AnalysisStrings \cup AnalysisNumbers \cup AnalysisArrays
FieldTags == {"absent", "number", "string", "array"}

GoodAnalysisResult(keypoints) ==
    [kind |-> "object", sessionId |-> "string", exerciseType |-> "string",
     totalReps |-> "number", accuracy |-> "number", formFeedback |-> "array",
     keypoints |-> keypoints, duration |-> "number", calories |-> "number",
     recommendations |-> "array"]

AnalysisPayloads ==
    {[[GoodAnalysisResult(k) EXCEPT ![f1] = t1] EXCEPT ![f2] = t2] :
        k \in KeypointsField, f1 \in AnalysisScalars, f2 \in AnalysisScalars,
        t1 \in FieldTags, t2 \in FieldTags}
        \cup {[GoodAnalysisResult([t |-> "absent", v |-> <<>>]) EXCEPT !.kind = kd] :
                kd \in {"null", "string"}}

validateAnalysisResultNoCalories(data) ==
    IF data.kind # "object" THEN "false"
    ELSE IF \/ \E f \in AnalysisScalars \ {"calories"} : data[f] = "absent"
            \/ data.keypoints.t = "absent"
    THEN "false"
    ELSE IF \/ \E f \in AnalysisStrings : data[f] # "string"
            \/ \E f \in AnalysisNumbers \ {"calories"} : data[f] # "number"
            \/ \E f \in AnalysisArrays : data[f] # "array"
            \/ data.keypoints.t # "array"
    THEN "false"
    ELSE EveryKeypoint(data.keypoints.v)

validateAnalysisResult(data) ==
    IF data.kind # "object" THEN "false"
    ELSE IF \/ \E f \in AnalysisScalars : data[f] = "absent"
            \/ data.keypoints.t = "absent"
    THEN "false"
    ELSE IF \/ \E f \in AnalysisStrings : data[f] # "string"
            \/ \E f \in AnalysisNumbers : data[f] # "number"
            \/ \E f \in AnalysisArrays : data[f] # "array"
            \/ data.keypoints.t # "array"
    THEN "false"
    ELSE EveryKeypoint(data.keypoints.v)

\* ExerciseConfig payloads; typeof is 'object' for objects, arrays and null,
\* and extras tells whether the optional fields (name, parameters, ...) are
\* there
ConfigTags == {"absent", "string", "array", "object", "null"}

ConfigPayloads ==
    [kind : {"object"}, exerciseType : {"absent", "string", "number"},
     targetKeypoints : ConfigTags, thresholds : ConfigTags, feedback : ConfigTags,
     extras : BOOLEAN]
        \cup [kind : {"null", "string"}, exerciseType : {"absent"},
              targetKeypoints : {"absent"}, thresholds : {"absent"},
              feedback : {"absent"}, extras : {FALSE}]

TypeofObject(tag) == tag \in {"object", "array", "null"}

validateExerciseConfig(data) ==
    IF data.kind # "object" THEN "false"
    ELSE IF \/ data.exerciseType = "absent" \/ data.targetKeypoints = "absent"
            \/ data.thresholds = "absent" \/ data.feedback = "absent"
    THEN "false"
    ELSE IF ~TypeofObject(data.thresholds) THEN "false"
    ELSE IF ~TypeofObject(data.feedback) THEN "false"
    ELSE IF data.targetKeypoints # "array" THEN "false"
    ELSE "true"

\* the service as constructed, left alone while a helper is evaluated
service == <<baseUrl, isInitialized, requestQueue, isProcessingQueue,
             networkStatus, retryConfig, configCache,
             exec, drain, result, timers, nextId, now>>

ServiceConstructed ==
    /\ baseUrl = "null"
    /\ isInitialized = FALSE
    /\ requestQueue = <<>>
    /\ isProcessingQueue = FALSE
    /\ networkStatus = [isConnected |-> TRUE]
    /\ retryConfig = [maxRetries |-> DefaultMaxRetries]
    /\ configCache = [x \in ExTypes |-> NoEntry]
    /\ exec = [p \in Procs |-> IdleExec]
    /\ drain = [d \in Drains |-> IdleDrain]
    /\ result = NoResult
    /\ timers = 0
    /\ nextId = 1
    /\ now = 0

Pending(fn, arg) == [fn |-> fn, arg |-> arg, done |-> FALSE, val |-> "none"]

ValidatePoseData ==
    /\ call.fn = "validatePoseData" /\ ~call.done
    /\ call' = [call EXCEPT !.done = TRUE, !.val = validatePoseData(call.arg)]
    /\ UNCHANGED <<service, networkService>>

\* SpecPose: validatePoseData on every payload of PosePayloads
InitPose ==
    /\ ServiceConstructed
    /\ networkService = NetworkServiceConstructed(FALSE)
    /\ \E data \in PosePayloads : call = Pending("validatePoseData", data)

NextPose == ValidatePoseData

SpecPose == InitPose /\ [][NextPose]_vars

ValidateAnalysisResult ==
    /\ call.fn = "validateAnalysisResult" /\ ~call.done
    /\ call' = [call EXCEPT !.done = TRUE, !.val = validateAnalysisResult(call.arg)]
    /\ UNCHANGED <<service, networkService>>

ValidateExerciseConfig ==
    /\ call.fn = "validateExerciseConfig" /\ ~call.done
    /\ call' = [call EXCEPT !.done = TRUE, !.val = validateExerciseConfig(call.arg)]
    /\ UNCHANGED <<service, networkService>>

\* SpecShapes: validateAnalysisResult and validateExerciseConfig on every
\* payload of AnalysisPayloads and ConfigPayloads
InitShapes ==
    /\ ServiceConstructed
    /\ networkService = NetworkServiceConstructed(FALSE)
    /\ \/ \E data \in AnalysisPayloads : call = Pending("validateAnalysisResult", data)
       \/ \E data \in ConfigPayloads : call = Pending("validateExerciseConfig", data)

NextShapes == ValidateAnalysisResult \/ ValidateExerciseConfig

SpecShapes == InitShapes /\ [][NextShapes]_vars

\* ---- synthetic answers ----------------------------------------------------
cycleTime == 8000

\* progress < tenths / 10, where progress = progressMs / cycleTime
ProgressBelow(progressMs, tenths) == progressMs * 10 < tenths * cycleTime

\* base + Math.sin(progress * k) * amp, kept as its terms: the value is
\* settled by them (base and amp in thousandths)
Wave(base, amp, k, progressMs) ==
    [base |-> base, amp |-> amp, k |-> k, progressMs |-> progressMs]

\* 0.5 + Math.sin(progress * Math.PI * 2) * 0.1 + plus (plus in hundredths)
BaseY(progressMs, plus) == [progressMs |-> progressMs, plus |-> plus]

PoseStageInclusive(progressMs) ==
    IF progressMs * 10 <= 2 * cycleTime THEN "rest"
    ELSE IF progressMs * 10 <= 5 * cycleTime THEN "down"
    ELSE IF progressMs * 10 <= 7 * cycleTime THEN "hold"
    ELSE "up"

\* the four-phase cycle of getFallbackPoseData
PoseStage(progressMs) ==
    IF ProgressBelow(progressMs, 2) THEN "rest"
    ELSE IF ProgressBelow(progressMs, 5) THEN "down"
    ELSE IF ProgressBelow(progressMs, 7) THEN "hold"
    ELSE "up"

PoseFormScore(progressMs) ==
    LET stage == PoseStage(progressMs)
    IN  CASE stage = "rest" -> Wave(85000, 3000, 10, progressMs)
          [] stage = "down" -> Wave(88000, 4000, 8, progressMs)
          [] stage = "hold" -> Wave(92000, 2000, 12, progressMs)
          [] stage = "up" -> Wave(90000, 3000, 6, progressMs)

PoseWarnings(progressMs) ==
    LET stage == PoseStage(progressMs)
    IN  CASE stage = "rest" -> <<"Get ready to start your squat">>
          [] stage = "down" -> <<"Descending - control the movement",
                                 "Keep your back straight">>
          [] stage = "hold" -> <<"Hold position - great depth!">>
          [] stage = "up" -> <<"Rising up - push through your heels">>

\* x, z and visibility in hundredths
PoseKeypoints(progressMs) ==
    << [x |-> 45, y |-> BaseY(progressMs, -10), z |-> 10, visibility |-> 95,
        name |-> "left_hip"],
       [x |-> 55, y |-> BaseY(progressMs, -10), z |-> 10, visibility |-> 95,
        name |-> "right_hip"],
       [x |-> 43, y |-> BaseY(progressMs, 15), z |-> 20, visibility |-> 92,
        name |-> "left_knee"],
       [x |-> 57, y |-> BaseY(progressMs, 15), z |-> 20, visibility |-> 92,
        name |-> "right_knee"],
       [x |-> 40, y |-> BaseY(progressMs, 35), z |-> 30, visibility |-> 90,
        name |-> "left_ankle"],
       [x |-> 60, y |-> BaseY(progressMs, 35), z |-> 30, visibility |-> 90,
        name |-> "right_ankle"] >>

getFallbackPoseDataRepAtHold(exerciseType, instant, stamp) ==
    LET progressMs == instant % cycleTime
    IN  [keypoints |-> PoseKeypoints(progressMs),
         confidence |-> Wave(880, 50, 4, progressMs),
         formScore |-> [round |-> PoseFormScore(progressMs)],
         currentRep |-> IF PoseStage(progressMs) = "hold"
                        THEN (instant \div cycleTime) + 1 ELSE 0,
         stage |-> PoseStage(progressMs),
         warnings |-> PoseWarnings(progressMs),
         timestamp |-> stamp]

\* getFallbackPoseData with Date.now() = instant and new Date() = stamp
getFallbackPoseData(exerciseType, instant, stamp) ==
    LET progressMs == instant % cycleTime
    IN  [keypoints |-> PoseKeypoints(progressMs),
         confidence |-> Wave(880, 50, 4, progressMs),
         formScore |-> [round |-> PoseFormScore(progressMs)],
         currentRep |-> (instant \div cycleTime) + 1,
         stage |-> PoseStage(progressMs),
         warnings |-> PoseWarnings(progressMs),
         timestamp |-> stamp]

\* two calls in a row: the clock readings of the first, and how much later
\* the second one reads the clock
Instants == 0 .. (MaxCycles * cycleTime - 1)
Gaps == {0, 1, cycleTime - 1, cycleTime}

PoseCalls ==
    {<<[exerciseType |-> "squat", instant |-> t],
       [exerciseType |-> x, instant |-> t + g]>> :
        t \in Instants, g \in Gaps, x \in ExTypes}

GetFallbackPoseData ==
    /\ call.fn = "getFallbackPoseData" /\ ~call.done
    /\ LET a == call.arg[Len(call.val) + 1]
       IN  \E lag \in 0..MaxLag :
             call' = [call EXCEPT
                        !.val = Append(@, getFallbackPoseData(a.exerciseType,
                                            a.instant, a.instant + lag)),
                        !.done = (Len(call.val) + 1 = Len(call.arg))]
    /\ UNCHANGED <<service, networkService>>

\* the table of getFallbackExerciseConfig (thresholds in tenths)
fallbackConfigs ==
    [squat |->
        [exerciseType |-> "squat",
         targetKeypoints |-> <<"left_hip", "right_hip", "left_knee",
                               "right_knee", "left_ankle", "right_ankle">>,
         thresholds |-> [minAngle |-> 900, maxAngle |-> 1700, holdTime |-> 10],
         formChecks |-> <<"knee_alignment", "back_straight", "depth_check">>,
         feedback |-> [realTimeEnabled |-> TRUE, audioEnabled |-> TRUE,
                       visualEnabled |-> TRUE]],
     push_up |->
        [exerciseType |-> "push_up",
         targetKeypoints |-> <<"left_shoulder", "right_shoulder", "left_elbow",
                               "right_elbow", "left_wrist", "right_wrist">>,
         thresholds |-> [minAngle |-> 450, maxAngle |-> 1600, holdTime |-> 5],
         formChecks |-> <<"elbow_alignment", "body_straight", "full_range">>,
         feedback |-> [realTimeEnabled |-> TRUE, audioEnabled |-> TRUE,
                       visualEnabled |-> TRUE]]]

\* fallbackConfigs is an object literal: besides its own two keys a lookup
\* finds the members every object inherits, all of them truthy
InheritedKeys == {"constructor", "toString", "valueOf", "hasOwnProperty",
                  "__proto__"}

ExerciseTypeStrings ==
    {"squat", "push_up", "hammer_curl", "chair_yoga", "plank", "Squat", ""}
        \cup InheritedKeys

\* what a lookup returns: an entry of the table, or an inherited member
Entry(key) == [kind |-> "config", of |-> key]
Inherited(key) == [kind |-> "inherited", of |-> key]

getFallbackExerciseConfig(exerciseType) ==
    IF exerciseType \in DOMAIN fallbackConfigs THEN Entry(exerciseType)
    ELSE IF exerciseType \in InheritedKeys THEN Inherited(exerciseType)
    ELSE Entry("squat")

GetFallbackExerciseConfig ==
    /\ call.fn = "getFallbackExerciseConfig" /\ ~call.done
    /\ call' = [call EXCEPT !.done = TRUE,
                            !.val = getFallbackExerciseConfig(call.arg)]
    /\ UNCHANGED <<service, networkService>>

\* SpecSynth: the two synthesizers, on pairs of clock readings and on
\* exercise type strings
InitSynth ==
    /\ ServiceConstructed
    /\ networkService = NetworkServiceConstructed(FALSE)
    /\ \/ \E calls \in PoseCalls :
            call = [fn |-> "getFallbackPoseData", arg |-> calls,
                    done |-> FALSE, val |-> <<>>]
       \/ \E x \in ExerciseTypeStrings :
            call = Pending("getFallbackExerciseConfig", x)

NextSynth == GetFallbackPoseData \/ GetFallbackExerciseConfig

SpecSynth == InitSynth /\ [][NextSynth]_vars

\* ---- calculateRetryDelay ----------------------------------------------------
RECURSIVE Pow(_, _)
Pow(b, e) == IF e = 0 THEN 1 ELSE b * Pow(b, e - 1)

Min(a, b) == IF a <= b THEN a ELSE b

\* retryConfig as constructed, and as a caller may have set it with
\* updateRetryConfig
DefaultRetryConfig ==
    [maxRetries |-> 3, baseDelay |-> 1000, maxDelay |-> 10000, backoffFactor |-> 2]

RetryConfigs ==
    {DefaultRetryConfig,
     [maxRetries |-> 3, baseDelay |-> 500, maxDelay |-> 4000, backoffFactor |-> 3],
     [maxRetries |-> 3, baseDelay |-> 2000, maxDelay |-> 2000, backoffFactor |-> 1]}

\* the words of a number delay + jitter with jitter = random * 0.1 * delay and
\* Math.random() = r / RandomGrain: the number is delay + over / under
Jittered(delay, r) == [delay |-> delay, over |-> r * delay, under |-> 10 * RandomGrain]

calculateRetryDelayUnclamped(config, retryCount, r) ==
    Jittered(config.baseDelay * Pow(config.backoffFactor, retryCount), r)

calculateRetryDelay(config, retryCount, r) ==
    Jittered(Min(config.baseDelay * Pow(config.backoffFactor, retryCount),
                 config.maxDelay), r)

CalculateRetryDelay ==
    /\ call.fn = "calculateRetryDelay" /\ ~call.done
    /\ \E r \in 0..(RandomGrain - 1) :
          call' = [call EXCEPT
                     !.done = TRUE,
                     !.val = calculateRetryDelay(call.arg.retryConfig,
                                                 call.arg.retryCount, r)]
    /\ UNCHANGED <<service, networkService>>

\* SpecDelay: calculateRetryDelay for every policy of RetryConfigs, every
\* retryCount up to MaxRetryCount and every value of Math.random()
InitDelay ==
    /\ ServiceConstructed
    /\ networkService = NetworkServiceConstructed(FALSE)
    /\ \E config \in RetryConfigs, k \in 0..MaxRetryCount :
          call = Pending("calculateRetryDelay",
                         [retryConfig |-> config, retryCount |-> k])

NextDelay == CalculateRetryDelay

SpecDelay == InitDelay /\ [][NextDelay]_vars

\* ---- NetworkService ----------------------------------------------------------
\* what makeRequest returns to its caller
Respond(r, success, error) == [request |-> r, success |-> success, error |-> error]

\* request r goes on as q, nothing being returned
Proceed(r, q) ==
    networkService' = [networkService EXCEPT !.requests[r] = q,
                                             !.response = NoResponse]

\* request r returns response
Return(r, response) ==
    networkService' = [networkService EXCEPT !.requests[r] = IdleRequest,
                                             !.response = response]

\* get, post, put, delete, patch, healthCheck: makeRequest up to its await
\* on mockApiService.getMockResponse
MakeRequest(r, retries) ==
    /\ networkService.requests[r].pc = "idle"
    /\ Proceed(r, [pc |-> "mock", retries |-> retries, attempt |-> 0])
    /\ UNCHANGED <<service, call>>

\* getMockResponse answers: a mock response (success or not) or none; then
\* the offline test, the localhost test and the first fetch
GetMockResponseDone(r, mock) ==
    /\ networkService.requests[r].pc = "mock"
    /\ IF mock # "none" THEN Return(r, Respond(r, mock = "success", "mock"))
       ELSE IF ~networkService.isOnline
       THEN Return(r, Respond(r, FALSE, "No internet connection available"))
       ELSE IF networkService.skip
       THEN Return(r, Respond(r, FALSE,
                              "Backend not available in current environment"))
       ELSE Proceed(r, [networkService.requests[r] EXCEPT !.pc = "fetch"])
    /\ UNCHANGED <<service, call>>

FetchOutcomes == {"ok", "http", "abort", "network", "other"}

FetchSettlesRecovering(r, outcome) ==
    /\ networkService.requests[r].pc = "fetch"
    /\ LET q == networkService.requests[r]
       IN  CASE outcome = "ok" ->
                  networkService' =
                      [networkService EXCEPT !.requests[r] = IdleRequest,
                                             !.response = Respond(r, TRUE, "none"),
                                             !.isOnline = TRUE]
             [] outcome = "http" -> Return(r, Respond(r, FALSE, "HTTP"))
             [] outcome = "abort" -> Return(r, Respond(r, FALSE, "Request timeout"))
             [] outcome = "network" ->
                  networkService' =
                      [networkService EXCEPT
                         !.isOnline = FALSE,
                         !.requests[r] = IdleRequest,
                         !.response = Respond(r, FALSE, "Network connection failed")]
             [] OTHER ->
                  IF q.attempt < q.retries
                  THEN Proceed(r, [q EXCEPT !.pc = "backoff"])
                  ELSE Return(r, Respond(r, FALSE, "other"))
    /\ UNCHANGED <<service, call>>

\* the fetch of request r settles: a response that is ok or not, the abort
\* of the timeout, 'Network request failed', or any other error
FetchSettles(r, outcome) ==
    /\ networkService.requests[r].pc = "fetch"
    /\ LET q == networkService.requests[r]
       IN  CASE outcome = "ok" -> Return(r, Respond(r, TRUE, "none"))
             [] outcome = "http" -> Return(r, Respond(r, FALSE, "HTTP"))
             [] outcome = "abort" -> Return(r, Respond(r, FALSE, "Request timeout"))
             [] outcome = "network" ->
                  networkService' =
                      [networkService EXCEPT
                         !.isOnline = FALSE,
                         !.requests[r] = IdleRequest,
                         !.response = Respond(r, FALSE, "Network connection failed")]
             [] OTHER ->
                  IF q.attempt < q.retries
                  THEN Proceed(r, [q EXCEPT !.pc = "backoff"])
                  ELSE Return(r, Respond(r, FALSE, "other"))
    /\ UNCHANGED <<service, call>>

\* the wait before the next attempt is over: the loop fetches again
RetryWaitDone(r) ==
    /\ networkService.requests[r].pc = "backoff"
    /\ Proceed(r, [networkService.requests[r] EXCEPT !.pc = "fetch",
                                                       !.attempt = @ + 1])
    /\ UNCHANGED <<service, call>>

SetOnlineStatus(isOnline) ==
    /\ networkService' = [networkService EXCEPT !.isOnline = isOnline,
                                                !.response = NoResponse]
    /\ UNCHANGED <<service, call>>

\* SpecNet: requests of the NetworkService, in both environments
InitNet ==
    /\ ServiceConstructed
    /\ call = NoCall
    /\ \E skip \in BOOLEAN : networkService = NetworkServiceConstructed(skip)

NextNet ==
    \/ \E r \in Requests, retries \in 0..MaxRetriesOption : MakeRequest(r, retries)
    \/ \E r \in Requests, mock \in {"none", "success", "failure"} :
          GetMockResponseDone(r, mock)
    \/ \E r \in Requests, outcome \in FetchOutcomes : FetchSettles(r, outcome)
    \/ \E r \in Requests : RetryWaitDone(r)
    \/ \E isOnline \in BOOLEAN : SetOnlineStatus(isOnline)

SpecNet == InitNet /\ [][NextNet]_vars

\* ---- properties -----------------------------------------------------------
Last(q) == q[Len(q)]
Range(q) == {q[i] : i \in 1..Len(q)}

\* an operation that defers was called in this step, by the application or by
\* a drain pass, on an initialized client that is disconnected
DeferringCall ==
    /\ result'.sync
    /\ result'.op \in QueuedKinds
    /\ baseUrl' # "null"
    /\ ~networkStatus'.isConnected
    /\ result'.op = "config" => getCachedConfig(configCache, result'.ex).data = "none"

\* C1: a call to uploadVideo, getExerciseConfig (cache miss) or
\* submitSessionSummary on an initialized, disconnected client appends exactly
\* one new entry of the matching kind to the queue and starts no network call.
C1_OfflineCallIsQueued ==
    [][DeferringCall =>
        /\ requestQueue' # <<>>
        /\ Last(requestQueue') =
              [id |-> nextId, type |-> result'.op, ex |-> result'.ex, retryCount |-> 0]
        /\ Cardinality({i \in 1..Len(requestQueue') : requestQueue'[i].id >= nextId}) = 1
        /\ nextId' = nextId + 1
        /\ result'.outcome = "error" /\ result'.err = QueuedError
        /\ exec' = exec]_vars

C1_Witness ==
    /\ result.sync /\ result.proc = "app" /\ result.op = "summary"
    /\ result.err = QueuedError
    /\ ~networkStatus.isConnected
    /\ Len(requestQueue) = 2
    /\ Last(requestQueue).type = "summary"

\* the entries whose replay has not started: the queue and what each pass
\* still has to reach
Waiting ==
    Range(requestQueue) \cup
        UNION {Range(Tail(drain[d].todo)) : d \in {o \in Drains : drain[o].todo # <<>>}}

\* pass d calls processQueuedRequest on a new entry in this step
ReplayStarts(d) == drain'[d].todo # <<>> /\ drain'[d].todo # drain[d].todo

\* the entries kept by a step keep their relative order in the queue
QueueOrderKept ==
    \A i, j \in 1..Len(requestQueue) : \A k, l \in 1..Len(requestQueue') :
        (i < j /\ requestQueue'[k].id = requestQueue[i].id
               /\ requestQueue'[l].id = requestQueue[j].id) => k < l

\* C2: replay preserves enqueue order.  Ids grow with the time of the
\* enqueue and an entry with retryCount 0 has never been replayed: when the
\* first replay of B starts, no entry enqueued before B is still waiting for
\* its first replay; and no step reorders the queue.
C2_ReplayInEnqueueOrder ==
    [][/\ QueueOrderKept
       /\ \A d \in Drains : ReplayStarts(d) =>
            LET B == Head(drain'[d].todo)
            IN B.retryCount = 0 =>
                 \A A \in Waiting' : ~(A.retryCount = 0 /\ A.id < B.id)]_vars

\* every entry the service holds: queued, or in the snapshot of a pass
Held == Range(requestQueue) \cup UNION {Range(drain[d].todo) : d \in Drains}
Present(id) == \E e \in Held : e.id = id
RetryCountOf(id) == (CHOOSE e \in Held : e.id = id).retryCount

\* pass d resumed after the await on processQueuedRequest in this step
Resumed(d) == drain[d].pc = "resume" /\ drain'[d] # drain[d]

\* C4: a failed replay re-appends the entry at the tail with retryCount + 1
\* when retryCount < maxRetries and drops it otherwise; a successful replay
\* removes the entry; an entry that is gone is never appended again.
C4_FailedReplayRequeued ==
    [][/\ \A d \in Drains : Resumed(d) =>
            LET request == Head(drain[d].todo)
                n == Len(requestQueue)
            IN IF ~drain[d].ok /\ request.retryCount < retryConfig.maxRetries
               THEN /\ Len(requestQueue') >= n + 1
                    /\ SubSeq(requestQueue', 1, n + 1) =
                          Append(requestQueue,
                                 [request EXCEPT !.retryCount = request.retryCount + 1])
                    /\ \A o \in Drains : request.id \notin
                          {drain'[o].todo[i].id : i \in 1..Len(drain'[o].todo)}
               ELSE \A e \in Held' : e.id # request.id
       /\ \A id \in 1..MaxId : (id < nextId /\ ~Present(id)) => ~Present(id)']_vars

C4_Witness ==
    /\ ~isProcessingQueue
    /\ \A d \in Drains : drain[d].pc = "idle"
    /\ Len(requestQueue) = 1
    /\ requestQueue[1].retryCount = 1
    /\ nextId = 3

\* C5: at most one drain pass is executing at any time.
C5_SingleDrainPass == Cardinality({d \in Drains : drain[d].pc # "idle"}) <= 1

\* C7: the retryCount of an entry never decreases while the entry lives.
C7_RetryCountMonotonic ==
    [][\A id \in 1..MaxId :
          (Present(id) /\ Present(id)') => RetryCountOf(id)' >= RetryCountOf(id)]_vars

C7_Witness ==
    \E d \in Drains :
        /\ drain[d].pc = "await"
        /\ Head(drain[d].todo).retryCount = 1
        /\ exec[d].attempt = 1

\* task p starts an attempt of executeWithRetry in this step while the network
\* status is disconnected: after a backoff wait, or as the first attempt of a
\* health check
AttemptStartsOffline(p) ==
    /\ ~networkStatus.isConnected
    /\ \/ exec[p].pc = "backoff" /\ exec'[p] # exec[p]
       \/ /\ p = "app"
          /\ exec[p].pc \in {"idle", "discover"}
          /\ \/ exec'[p].op = "health" /\ exec'[p].pc \in {"inflight", "backoff"}
             \/ result'.op = "health" /\ ~result'.sync

\* C8: when the network status is disconnected as an attempt is about to
\* start, the call ends in that step with the no-network error: it does not
\* wait for a backoff delay and goes on to no further attempt.
C8_OfflineAttemptFailsFast ==
    [][\A p \in Procs : AttemptStartsOffline(p) =>
          /\ exec'[p].pc = "idle"
          /\ result'.proc = p
          /\ result'.err = NoNetworkError]_vars

\* the statuses the claim names, read off the error's message
NamedNonRetryable(err) ==
    \E s \in {400, 401, 404, 413} : Includes(err.msg, <<StatusWord(s)>>)

\* C9: a failure that carries status 401, 400, 404 or 413 ends the call where
\* it occurs: no task waits for a backoff delay after it, and when it is the
\* first failure the operation was invoked exactly once.
C9_NonRetryablePropagates ==
    /\ \A p \in Procs : exec[p].pc = "backoff" => ~NamedNonRetryable(exec[p].lastError)
    /\ (~result.sync /\ NamedNonRetryable(result.err)) =>
          /\ result.outcome \in {"error", "false"}
          /\ result.attempt = 0 => result.calls = 1

C9_Witness ==
    /\ ~result.sync /\ result.proc = "app" /\ result.op = "video"
    /\ result.err = HttpError(<<"upload", "failed", "with", "status">>, 413, FALSE)
    /\ result.calls = 1
    /\ exec["app"].pc = "idle"

\* the retry limit the claim gives each operation
ClaimedMaxRetries(op) ==
    IF op \in {"frame", "health"} THEN {1}
    ELSE {DefaultMaxRetries} \cup 0..MaxPolicy

\* C10: one call of executeWithRetry invokes the operation at most
\* maxRetries + 1 times, maxRetries being the policy's value (3 unless
\* updateRetryConfig changed it) and 1 for analyzeFrame and the health check;
\* it waits for a backoff only while attempts remain.
C10_BoundedInvocations ==
    /\ \A p \in Procs : exec[p].pc \in {"inflight", "backoff"} =>
          /\ exec[p].maxRetries \in ClaimedMaxRetries(exec[p].op)
          /\ exec[p].calls <= exec[p].attempt + 1
          /\ exec[p].attempt <= exec[p].maxRetries
          /\ exec[p].pc = "backoff" => exec[p].attempt < exec[p].maxRetries
    /\ (~result.sync /\ result.proc # "none") =>
          /\ result.maxRetries \in ClaimedMaxRetries(result.op)
          /\ result.calls <= result.maxRetries + 1

C10_Witness ==
    /\ ~result.sync /\ result.proc = "app" /\ result.op = "summary"
    /\ result.outcome = "error"
    /\ result.maxRetries = DefaultMaxRetries
    /\ result.calls = DefaultMaxRetries + 1

\* ---- replay liveness (SpecLive) ------------------------------------------
Queued(id) == \E i \in 1..Len(requestQueue) : requestQueue[i].id = id
InPass(id) == \E d \in Drains : \E i \in 1..Len(drain[d].todo) : drain[d].todo[i].id = id

\* processQueuedRequest has been called on entry id by a pass that has not
\* moved on yet
Replaying(id) ==
    \E d \in Drains : drain[d].todo # <<>> /\ Head(drain[d].todo).id = id

\* the runs the bounds cut short: a replay that would defer again finds the
\* ids used up, or a pass that would schedule a re-drain finds MaxTimers
\* timers pending
BoundReached ==
    \/ nextId > MaxId /\ ~networkStatus.isConnected
    \/ timers = MaxTimers /\ MicrotaskPending

Recovery == ~networkStatus.isConnected /\ networkStatus'.isConnected

\* the recovery signal takes every queued entry into a pass, or finds a pass
\* running and leaves the queue as it is
RecoveryTakesAll ==
    Recovery => \A id \in 1..MaxId : Queued(id) =>
        \/ InPass(id)'
        \/ isProcessingQueue /\ requestQueue' = requestQueue

\* a pass replays an entry through the operation of its kind
DispatchByKind ==
    \A d \in Drains : ReplayStarts(d) =>
        LET request == Head(drain'[d].todo)
        IN \/ exec'[d].pc # "idle" /\ exec'[d].op = request.type
           \/ result'.proc = d /\ result'.sync /\ result'.op = request.type

\* an entry leaves the queue without a replay only when the queue is emptied
\* by clearRequestQueue() or reset()
LeavesByClear ==
    \A id \in 1..MaxId : (Queued(id) /\ ~Present(id)') =>
        requestQueue' = <<>> /\ drain' = drain

\* C3 as stated: an entry the queue holds once the network is back is
\* eventually replayed.
C3_RecoveryReplaysAll ==
    \A id \in 1..MaxId :
        (networkStatus.isConnected /\ Queued(id)) ~> (Replaying(id) \/ BoundReached)

\* C3 amended: the recovery signal hands every queued entry to a pass unless
\* a pass is running; each entry held once the network is back is eventually
\* replayed through the operation of its kind, unless clearRequestQueue() or
\* reset() empties the queue before a pass has taken it.
C3_RecoveryReplaysUnlessCleared ==
    /\ [][RecoveryTakesAll /\ DispatchByKind /\ LeavesByClear]_vars
    /\ \A id \in 1..MaxId :
          (networkStatus.isConnected /\ Present(id)) ~>
              (Replaying(id) \/ ~Present(id) \/ BoundReached)

\* a recovery found a pass running: entry 2 waits in the queue while the pass
\* replays entry 1
C3_Witness ==
    /\ networkStatus.isConnected
    /\ isProcessingQueue
    /\ Queued(2) /\ Replaying(1)

\* nothing queued, no pass running, no re-drain scheduled
Drained ==
    /\ requestQueue = <<>>
    /\ \A d \in Drains : drain[d].pc = "idle"
    /\ timers = 0

\* C6: every entry leaves the queue, and the queue ends up empty with no
\* further drain scheduled, unless the network status goes down again and
\* again.
C6_QueueDrains ==
    /\ \A id \in 1..MaxId :
          (networkStatus.isConnected /\ Present(id)) ~>
              (~Present(id) \/ ~networkStatus.isConnected \/ BoundReached)
    /\ []<>(Drained \/ ~networkStatus.isConnected \/ BoundReached)

\* a re-drain is scheduled for an entry whose replay failed
C6_Witness ==
    /\ networkStatus.isConnected
    /\ timers = 1
    /\ \A d \in Drains : drain[d].pc = "idle"
    /\ Len(requestQueue) = 1 /\ requestQueue[1].retryCount = 1

\* C11: a call that has used up its attempts fails with the error its last
\* attempt ran into.
C11_LastErrorPropagates ==
    (/\ ~result.sync /\ result.proc # "none"
     /\ result.outcome \in {"error", "false"}
     /\ result.attempt = result.maxRetries) => result.err = result.seen

\* the policy's attempts are used up and the last one failed with status 500
C11_Witness ==
    /\ ~result.sync /\ result.proc = "app" /\ result.op = "summary"
    /\ result.attempt = DefaultMaxRetries /\ result.calls = DefaultMaxRetries + 1
    /\ result.err = HttpError(<<"session", "summary", "failed">>, 500, TRUE)
    /\ result.seen = result.err

\* ---- the recovery signal ------------------------------------------------
\* the passes that start in this step
Started == {d \in Drains : drain[d].pc = "idle" /\ drain'[d].pc # "idle"}

\* a pass starts in a step that is not the re-drain timer's: the network
\* listener started it
ListenerStartsPass == Started # {} /\ timers' = timers

ConfigLookup(ex) ==
    /\ baseUrl # "null"
    /\ \/ result'.sync /\ result'.op = "config" /\ result'.ex = ex
       \/ \E p \in Procs : /\ exec[p].pc = "idle" /\ exec'[p].pc = "inflight"
                           /\ exec'[p].op = "config" /\ exec'[p].ex = ex

\* the call of this step returned the value the cache held
ServedFromCache(ex) ==
    /\ result'.sync /\ result'.op = "config" /\ result'.ex = ex
    /\ result'.outcome = configCache[ex].data

\* C13: a lookup serves the cached config only while now < expiresAt; a
\* lookup of an entry at now >= expiresAt removes it and serves nothing, so
\* no entry is served at or after its expiry instant
C13_ServedOnlyBeforeExpiry ==
    [][\A ex \in ExTypes :
          (ConfigLookup(ex) /\ configCache[ex] # NoEntry) =>
              IF now < configCache[ex].expiresAt
              THEN ServedFromCache(ex) /\ configCache'[ex] = configCache[ex]
              ELSE ~ServedFromCache(ex) /\ configCache'[ex] = NoEntry]_vars

\* the call of this step went to the network for the config of ex
Fetches(ex) ==
    \E p \in Procs : /\ exec[p].pc = "idle" /\ exec'[p].pc = "inflight"
                     /\ exec'[p].op = "config" /\ exec'[p].ex = ex

\* a fetch of the config of ex has just given its caller a value
FetchReturned(ex) ==
    /\ ~result.sync /\ result.op = "config" /\ result.ex = ex
    /\ result.outcome \notin {"none", "error"}

\* C14: for one exercise type, a second getExerciseConfig call within the
\* lifetime of the first fetch makes no further network call, and a call
\* made after that lifetime has run out makes a new one
C14_OneFetchPerLifetime ==
    [][\A ex \in ExTypes :
          /\ (FetchReturned(ex) /\ ConfigLookup(ex)) => ~Fetches(ex)
          /\ (/\ ConfigLookup(ex) /\ configCache[ex] # NoEntry
              /\ now < configCache[ex].expiresAt) => ~Fetches(ex)
          /\ (/\ ConfigLookup(ex) /\ configCache[ex] # NoEntry
              /\ now > configCache[ex].expiresAt
              /\ networkStatus'.isConnected) => Fetches(ex)]_vars

\* C15: after an online getExerciseConfig call that returned a value, the
\* validated backend config or the synthetic fallback, the cache holds that
\* value under the requested exercise type
C15_ReturnedValueCached ==
    \A ex \in ExTypes :
        FetchReturned(ex) =>
            /\ configCache[ex].data = result.outcome
            /\ configCache[ex].expiresAt = now + CACHE_DURATION

\* ---- analyzeFrame ------------------------------------------------------------
\* analyzeFrame was called in this step: it ended before suspending or went
\* on to the network
FrameCall ==
    \/ result'.sync /\ result'.op = "frame"
    \/ \E p \in Procs : /\ exec[p].pc = "idle" /\ exec'[p].pc # "idle"
                        /\ exec'[p].op = "frame"

\* C16: analyzeFrame called on an initialized client whose network status is
\* disconnected fails at once with the real-time no-connection error, starts
\* no network call and leaves the offline queue as it was
C16_OfflineFrameFailsFast ==
    [][(FrameCall /\ baseUrl' # "null" /\ ~networkStatus'.isConnected) =>
          /\ result'.sync /\ result'.outcome = "error"
          /\ result'.err = FrameOfflineError
          /\ exec' = exec
          /\ requestQueue' = requestQueue /\ nextId' = nextId]_vars

C16_Witness ==
    /\ result.sync /\ result.proc = "app" /\ result.op = "frame"
    /\ result.err = FrameOfflineError
    /\ baseUrl # "null" /\ ~networkStatus.isConnected
    /\ Len(requestQueue) = 2
    /\ \A i \in 1..2 : requestQueue[i].type # "frame"

\* ---- degraded answers --------------------------------------------------------
\* the status classes of the answers: authentication, validation, not found
\* and server-class (5xx) among ErrorStatuses
AuthStatuses == {401, 403}
ValidationStatuses == {422}
NotFoundStatuses == {404}
ServerStatuses == {s \in ErrorStatuses : s >= 500}

\* the request of a call to op by task p is answered with resp in this step
Answered(p, op, resp) == exec[p].op = op /\ NetRespond(p, resp)

\* C17: whenever the backend answers an online analyzeFrame call with an
\* authentication, validation or server-class status, the call propagates no
\* error, what it returns is the synthetic pose data, and it makes at most
\* one retry
C17_FrameAnswerDegrades ==
    [][\A p \in Procs : \A resp \in Responses :
          (/\ Answered(p, "frame", resp)
           /\ resp.status \in AuthStatuses \cup ValidationStatuses \cup ServerStatuses) =>
              /\ result'.outcome # "error"
              /\ result'.proc # "none" => result'.outcome = "synthetic"
              /\ exec'[p].attempt <= 1 /\ result'.attempt <= 1]_vars

\* C18: whenever the backend answers an online getExerciseConfig call that
\* missed the cache with an authentication, not-found or server-class status,
\* no error reaches the caller and what the call returns is the synthetic
\* fallback config of the requested type
C18_ConfigAnswerDegrades ==
    [][\A p \in Procs : \A resp \in Responses :
          (/\ Answered(p, "config", resp)
           /\ resp.status \in AuthStatuses \cup NotFoundStatuses \cup ServerStatuses) =>
              /\ result'.outcome # "error"
              /\ result'.proc # "none" =>
                    result'.outcome = "synthetic" /\ result'.ex = exec[p].ex]_vars

\* C19: a call to uploadVideo or submitSessionSummary ends with a payload
\* received from the backend, with the queued signal or with another error,
\* never with synthetic data; a call that ends with synthetic data is a call
\* to analyzeFrame or getExerciseConfig
C19_NoSyntheticUploadOrSummary ==
    /\ (result.proc # "none" /\ result.op \in {"video", "summary"}) =>
          \/ result.outcome = "backend" /\ result.err = NoError /\ ~result.sync
          \/ result.outcome = "error" /\ result.err # NoError
    /\ result.outcome = "synthetic" => result.op \in {"frame", "config"}

C19_Witness ==
    /\ result.proc = "app" /\ result.op = "video" /\ ~result.sync
    /\ result.outcome = "error" /\ result.calls = 1
    /\ result.err = HttpError(<<"upload", "failed", "with", "status">>, 401, FALSE)

\* C20: getExerciseConfig("squat") was deferred while offline; when the pass
\* started by the recovery replays it and the backend answers 500, the squat
\* fallback config the replay ends with reaches the application: it is
\* handed to the application or kept for its next lookup
C20_ReplayedFallbackReachesCaller ==
    [][\A d \in Drains : \A resp \in Responses :
          (/\ Answered(d, "config", resp) /\ exec[d].ex = "squat"
           /\ resp.status = 500) =>
              /\ result'.outcome = "synthetic" /\ result'.ex = "squat"
              /\ \/ result'.proc = "app"
                 \/ configCache'["squat"].data = "synthetic"]_vars

\* ---- initialize ---------------------------------------------------------------
Ready == isInitialized /\ baseUrl # "null"

\* initialize() gave its caller an answer in this step
InitializeEnds == result'.proc = "app" /\ result'.op = "init"

\* initialize() started discovery in this step
DiscoveryStarts ==
    /\ exec["app"].pc # "discover" /\ exec'["app"].pc = "discover"
    /\ exec'["app"].op = "init"

\* C21: once initialize() has succeeded, a later call returns true without
\* running discovery and without touching the base URL, the client staying
\* initialized until reset(); a discovery that finds no backend or throws
\* makes initialize() return false, never raise, with the base URL unset
C21_InitializeIdempotent ==
    [][/\ DiscoveryStarts => ~Ready
       /\ (InitializeEnds /\ Ready) =>
             /\ result'.outcome = "true" /\ result'.err = NoError
             /\ baseUrl' = baseUrl /\ isInitialized' /\ exec' = exec
       /\ InitializeEnds =>
             /\ result'.outcome \in {"true", "false"} /\ result'.err = NoError
             /\ result'.outcome = "true" => Ready'
             /\ result'.outcome = "false" => baseUrl' = "null" /\ ~isInitialized'
       /\ (Ready /\ ~Ready') =>
             /\ baseUrl' = "null" /\ ~isInitialized'
             /\ requestQueue' = <<>> /\ configCache' = [x \in ExTypes |-> NoEntry]]_vars

\* a second initialize() answered true on a client that has a config cached
C21_Witness ==
    /\ result.proc = "app" /\ result.op = "init" /\ result.outcome = "true"
    /\ Ready /\ exec["app"].pc = "idle"
    /\ configCache["squat"].data = "backend"

\* ---- timeouts -----------------------------------------------------------------
\* C22: every request an operation sends is bounded by a timeout, so a call
\* whose response never arrives fails and the operation comes to an end
C22_NoCallWaitsForever == (exec["app"].pc # "idle") ~> (exec["app"].pc = "idle")

\* ---- the end of a drain pass -------------------------------------------------
\* the pass d ran past its loop in this step
PassEnds(d) == drain[d].pc # "idle" /\ drain'[d].pc = "idle"

\* C23: a pass that ends with the queue non-empty schedules one more pass on
\* a timer and starts none itself; a pass that ends with the queue empty
\* schedules nothing
C23_RedrainOnTimer ==
    [][\A d \in Drains :
          PassEnds(d) =>
              /\ Started = {} /\ ~isProcessingQueue'
              /\ IF requestQueue' # <<>> THEN timers' = timers + 1
                                         ELSE timers' = timers]_vars

\* a pass has ended leaving its failed replay behind for the timer
C23_Witness ==
    /\ timers = 1 /\ ~isProcessingQueue
    /\ \A d \in Drains : drain[d].pc = "idle"
    /\ Len(requestQueue) = 1 /\ requestQueue[1].retryCount = 1
    /\ result = NoResult /\ networkStatus.isConnected

\* ---- what starts a drain pass ---------------------------------------------
\* the re-drain timer set at the end of a pass fired in this step
RedrainTimerFires == timers' = timers - 1

\* a call of the public interface ended or went to the network in this step
PublicCall == result'.proc = "app" \/ exec'["app"] # exec["app"]

\* C24: a drain pass is started only by the recovery notification of a
\* disconnected -> connected event or by the re-drain timer of a pass that
\* left the queue non-empty; reading the status or the queue length and
\* calling uploadVideo, analyzeFrame, getExerciseConfig or
\* submitSessionSummary start none
C24_OnlyRecoveryOrTimerDrains ==
    [][/\ Started # {} => Recovery \/ RedrainTimerFires
       /\ PublicCall => /\ Started = {} /\ drain' = drain
                        /\ isProcessingQueue' = isProcessingQueue
                        /\ timers' = timers]_vars

\* the status is read as connected while a replay that failed waits in the
\* queue for its timer and no pass runs
C24_Witness ==
    /\ result.proc = "app" /\ result.op = "status" /\ result.outcome = "true"
    /\ requestQueue # <<>> /\ ~isProcessingQueue /\ timers = 1
    /\ \A d \in Drains : drain[d].pc = "idle"

\* ---- response envelopes -----------------------------------------------------
ValidatedOps == {"video", "frame", "config"}

\* the error the call of task p has in hand after this step: the one it gave
\* its caller, or the one its retry loop caught
Raised(p) == IF result'.proc = p THEN result'.err ELSE exec'[p].lastError

\* C25: for video upload, frame analysis and config fetch, a 2xx response
\* whose envelope says success = false makes the attempt fail with the
\* remote-rejected error, one with success = true and no data makes it fail
\* with the empty-response error; neither is returned as a value
C25_EnvelopeUnwrapped ==
    [][\A p \in Procs : \A op \in ValidatedOps :
          /\ Answered(p, op, [status |-> 200, body |-> "rejected"]) =>
                Includes(Raised(p).msg, <<"api", "error", "in">>)
          /\ Answered(p, op, [status |-> 200, body |-> "nodata"]) =>
                Includes(Raised(p).msg, <<"no", "data", "in", "api", "response">>)]_vars

\* ---- the validators ---------------------------------------------------------
\* the keypoint shape: an object with numeric x and y, a string name and,
\* if present, numeric z and visibility
KeypointShape(k) ==
    /\ k.kind = "object"
    /\ k.x = "number" /\ k.y = "number" /\ k.name = "string"
    /\ k.z # "undefined" => k.z = "number"
    /\ k.visibility # "undefined" => k.visibility = "number"

WellFormedPoseData(d) ==
    /\ d.kind = "object"
    /\ d.keypoints.t = "array"
    /\ d.confidence = "number" /\ d.formScore = "number" /\ d.currentRep = "number"
    /\ d.stage.t = "string"
    /\ d.warnings = "array"
    /\ \A i \in 1..Len(d.keypoints.v) : KeypointShape(d.keypoints.v[i])
    /\ d.stage.v \in {"up", "down", "hold", "rest"}

\* C26: validatePoseData accepts a payload exactly when keypoints,
\* confidence, formScore, currentRep, stage and warnings are all present with
\* the right types, every keypoint has the keypoint shape and stage is one of
\* up, down, hold, rest; any other stage string is rejected
C26_PoseDataAccepted ==
    (call.fn = "validatePoseData" /\ call.done) =>
        /\ call.val = "true" <=> WellFormedPoseData(call.arg)
        /\ (call.arg.stage.t = "string" /\ call.arg.stage.v \notin validStages) =>
              call.val # "true"

\* a payload that is well-formed but for its stage "jump" was rejected
C26_Witness ==
    /\ call.fn = "validatePoseData" /\ call.done /\ call.val = "false"
    /\ call.arg.stage = [t |-> "string", v |-> "jump"]
    /\ WellFormedPoseData([call.arg EXCEPT !.stage.v = "hold"])
    /\ Len(call.arg.keypoints.v) = MaxKeypoints

\* a minimal ExerciseConfig: exerciseType, an array targetKeypoints, an
\* object thresholds and an object feedback, and nothing else
MinimalExerciseConfig(d) ==
    /\ d.kind = "object" /\ ~d.extras
    /\ d.exerciseType = "string"
    /\ d.targetKeypoints = "array"
    /\ d.thresholds = "object" /\ d.feedback = "object"

\* C27: validateAnalysisResult rejects every payload that lacks one of
\* sessionId, exerciseType, totalReps, accuracy, formFeedback, keypoints,
\* duration, calories, recommendations; validateExerciseConfig accepts the
\* minimal well-formed config
C27_MissingFieldRejected ==
    /\ (/\ call.fn = "validateAnalysisResult" /\ call.done
        /\ \/ \E f \in AnalysisScalars : call.arg[f] = "absent"
           \/ call.arg.keypoints.t = "absent") => call.val = "false"
    /\ (/\ call.fn = "validateExerciseConfig" /\ call.done
        /\ MinimalExerciseConfig(call.arg)) => call.val = "true"

\* an AnalysisResult complete but for calories was rejected
C27_Witness ==
    /\ call.fn = "validateAnalysisResult" /\ call.done /\ call.val = "false"
    /\ call.arg = [GoodAnalysisResult([t |-> "array", v |-> <<GoodKeypoint>>])
                      EXCEPT !.calories = "absent"]

\* ---- the synthesizers --------------------------------------------------------
PosePair == call.fn = "getFallbackPoseData" /\ call.done

\* the stage the cycle is in at phase ms of its 8000
PhaseStage(ms) ==
    IF ms < 1600 THEN "rest"
    ELSE IF ms < 4000 THEN "down"
    ELSE IF ms < 5600 THEN "hold"
    ELSE "up"

\* C28: synthetic pose data depends on the clock reading alone: two calls at
\* the same instant agree on stage, currentRep, formScore, warnings and
\* keypoints, calls 8000 ms apart are in the same phase of the cycle, and
\* the stage is rest, down, hold, up on [0,1600), [1600,4000), [4000,5600),
\* [5600,8000) of the instant modulo 8000
C28_PoseFromClockAlone ==
    PosePair =>
        LET t1 == call.arg[1].instant
            t2 == call.arg[2].instant
            a == call.val[1]
            b == call.val[2]
        IN  /\ t1 = t2 =>
                /\ a.stage = b.stage /\ a.currentRep = b.currentRep
                /\ a.formScore = b.formScore /\ a.warnings = b.warnings
                /\ a.keypoints = b.keypoints
            /\ t2 = t1 + 8000 => a.stage = b.stage
            /\ a.stage = PhaseStage(t1 % 8000)
            /\ b.stage = PhaseStage(t2 % 8000)

\* two calls at one instant exactly on the boundary of hold, for different
\* exercise types and with different timestamps
C28_Witness ==
    /\ PosePair
    /\ call.arg[1].instant = 4000 /\ call.arg[2].instant = 4000
    /\ call.arg[1].exerciseType # call.arg[2].exerciseType
    /\ call.val[1].timestamp # call.val[2].timestamp
    /\ call.val[1].stage = "hold"

\* C29: currentRep counts the whole 8000 ms cycles elapsed, never decreases
\* from an earlier instant to a later one, and is one more a cycle later
C29_RepMonotonic ==
    PosePair =>
        LET t1 == call.arg[1].instant
            t2 == call.arg[2].instant
            r1 == call.val[1].currentRep
            r2 == call.val[2].currentRep
        IN  /\ (r1 - 1) * 8000 <= t1 /\ t1 < r1 * 8000
            /\ t1 <= t2 => r1 <= r2
            /\ t2 = t1 + 8000 => r2 = r1 + 1

\* a call in the second cycle and one a full cycle later
C29_Witness ==
    /\ PosePair
    /\ call.arg[1].instant = 8000 + 5599 /\ call.arg[2].instant = 16000 + 5599
    /\ call.val[1].currentRep = 2 /\ call.val[2].currentRep = 3

\* C30: getFallbackExerciseConfig returns a config for every exercise type
\* string: the table's entry of that type if it has one, the default entry
\* otherwise
C30_FallbackConfigTotal ==
    (call.fn = "getFallbackExerciseConfig" /\ call.done) =>
        /\ call.val.kind = "config"
        /\ call.val.of \in DOMAIN fallbackConfigs
        /\ call.arg \in DOMAIN fallbackConfigs =>
              fallbackConfigs[call.val.of].exerciseType = call.arg
        /\ call.arg \notin DOMAIN fallbackConfigs => call.val = Entry("squat")

\* ---- backoff -------------------------------------------------------------------
\* C31: the delay before retry k lies between c and 1.1 * c, where c is
\* baseDelay * factor^k clamped at maxDelay (the jitter is added after the
\* clamp), for every policy and every k; with the defaults c is 1000, 2000,
\* 4000, 8000 and then 10000
C31_DelayWithinJitter ==
    (call.fn = "calculateRetryDelay" /\ call.done) =>
        LET config == call.arg.retryConfig
            k == call.arg.retryCount
            c == Min(config.baseDelay * Pow(config.backoffFactor, k), config.maxDelay)
            d == call.val
        IN  /\ c * d.under <= d.delay * d.under + d.over
            /\ 10 * (d.delay * d.under + d.over) <= 11 * c * d.under
            /\ (config = DefaultRetryConfig /\ k < 4) => c = 1000 * Pow(2, k)
            /\ (config = DefaultRetryConfig /\ k >= 4) => c = 10000

\* the default policy at retry 4, where 16000 is clamped to 10000, with the
\* largest jitter
C31_Witness ==
    /\ call.fn = "calculateRetryDelay" /\ call.done
    /\ call.arg = [retryConfig |-> DefaultRetryConfig, retryCount |-> 4]
    /\ call.val.delay = 10000
    /\ call.val.over = (RandomGrain - 1) * 10000

\* ---- attempts and connectivity ---------------------------------------------
\* this step invokes the wrapped operation of task p
Invokes(p) ==
    /\ exec'[p].pc = "inflight"
    /\ exec[p].pc # "inflight" \/ exec'[p].calls # exec[p].calls

\* C32: the wrapped operation is invoked only while networkStatus.isConnected
\* is true as the attempt reads it; an attempt that finds it false makes no
\* call
C32_NoInvocationWhileDisconnected ==
    [][\A p \in Procs : Invokes(p) => networkStatus'.isConnected]_vars

\* connectivity was lost after the first attempt and came back during the
\* backoff wait that followed the skipped attempt: the third attempt is the
\* second invocation
C32_Witness ==
    /\ exec["app"].pc = "inflight"
    /\ exec["app"].attempt = 2
    /\ exec["app"].calls = 2
    /\ exec["app"].lastError = NoNetworkError

\* ---- who creates queue entries ---------------------------------------------
\* entries in the queue or in the snapshot of a running pass
HeldCount == Len(requestQueue) + Len(drain["d1"].todo) + Len(drain["d2"].todo)

\* this step is a call of the application that returned at once
CallerStep == result'.proc = "app" /\ result'.sync

\* C33: a drain pass never creates entries: only a deferred call of the
\* application issues a fresh request id or adds to the entries held, so
\* the queue never holds more entries than the callers deferred
C33_DrainCreatesNoEntry ==
    [][/\ nextId' # nextId => CallerStep
       /\ HeldCount' > HeldCount => CallerStep]_vars

\* ---- clearRequestQueue during a pass -----------------------------------------
\* entries of the snapshot of pass d that the pass will still replay (all
\* but the one in hand) or may still re-append (the one in hand, below the
\* retry limit)
StillToCome(d) ==
    LET todo == drain[d].todo
    IN  IF todo = <<>> THEN {}
        ELSE Range(Tail(todo)) \cup
                {e \in {Head(todo)} : e.retryCount < retryConfig.maxRetries}

\* C34: when clearRequestQueue returns, nothing queued before it is left to
\* be replayed or re-appended, also when a pass is in progress: the queue is
\* empty and no pass holds an earlier entry that is still to come
C34_ClearDropsEarlierEntries ==
    [][ClearRequestQueue =>
          /\ requestQueue' = <<>>
          /\ \A d \in Drains : StillToCome(d)' = {}]_vars

\* ---- reset during a pass ---------------------------------------------------------
\* C35: reset() during a pass neither lets a second pass run beside the
\* interrupted one nor brings old work back: a pass starts only while no
\* other pass is running, and when reset returns no pass holds an entry that
\* is still to be replayed or re-appended
C35_ResetEndsThePass ==
    [][/\ \A d \in Started : \A o \in Drains \ {d} : drain[o].pc = "idle"
       /\ Reset => \A d \in Drains : StillToCome(d)' = {}]_vars

\* ---- calls on a client without a base URL -------------------------------------
\* this step is a call of one of the four operations
OperationCalled ==
    \E ex \in ExTypes :
        \/ UploadVideo(ex) \/ AnalyzeFrame(ex)
        \/ GetExerciseConfig(ex) \/ SubmitSessionSummary(ex)

\* C36: while the base URL is unset, a call of uploadVideo, analyzeFrame,
\* getExerciseConfig or submitSessionSummary fails at once with the
\* not-initialized error, connected or not, makes no network call and
\* leaves the queue and the cache as they were
C36_UnsetBaseUrlFailsFast ==
    [][(baseUrl = "null" /\ OperationCalled) =>
          /\ result'.proc = "app" /\ result'.sync
          /\ result'.outcome = "error" /\ result'.err = NotInitializedError
          /\ result'.calls = 0
          /\ UNCHANGED <<exec, requestQueue, nextId, configCache>>]_vars

\* a session summary was refused offline, after a reset that came while a
\* health check was in flight
C36_Witness ==
    /\ baseUrl = "null" /\ ~isInitialized
    /\ ~networkStatus.isConnected
    /\ exec["app"].pc = "inflight"
    /\ result.proc = "app" /\ result.op = "summary"
    /\ result.err = NotInitializedError

\* ---- kinds in the queue ----------------------------------------------------
\* C37: no entry of kind frame is ever in the queue or in the snapshot of a
\* pass, and no pass replays a frame analysis: only video, config and
\* summary are enqueued
C37_NoFrameQueued ==
    /\ \A e \in Held : e.type \in {"video", "config", "summary"}
    /\ \A d \in Drains : exec[d].op # "frame"

\* a frame analysis was refused offline while requests of the three other
\* kinds were waiting in the queue
C37_Witness ==
    /\ result.proc = "app" /\ result.op = "frame"
    /\ result.err = FrameOfflineError
    /\ {requestQueue[i].type : i \in 1..Len(requestQueue)} =
          {"video", "config", "summary"}

\* ---- NetworkService offline ---------------------------------------------------
\* this step, request r learns it is not mocked and reaches the offline test
ReachesOfflineTest(r) == GetMockResponseDone(r, "none")

\* C38: a request that fails with 'Network request failed' leaves the
\* service offline; while it is offline every non-mocked request that
\* reaches the offline test returns the no-connection result and starts no
\* fetch; and only setOnlineStatus(true) sets the service online again
C38_OfflineUntilSetOnline ==
    [][/\ \A r \in Requests :
             FetchSettles(r, "network") => ~networkService'.isOnline
       /\ \A r \in Requests :
             (~networkService.isOnline /\ ReachesOfflineTest(r)) =>
                /\ networkService'.response =
                      Respond(r, FALSE, "No internet connection available")
                /\ networkService'.requests[r].pc = "idle"
       /\ (~networkService.isOnline /\ networkService'.isOnline) =>
             SetOnlineStatus(TRUE)]_vars

\* offline, a request has just been refused while an earlier request is
\* still waiting for its fetch
C38_Witness ==
    /\ ~networkService.isOnline
    /\ networkService.response =
          Respond(2, FALSE, "No internet connection available")
    /\ networkService.requests[1].pc = "fetch"


====
